---- MODULE Spec2Model ----
(***************************************************************************)
(* The DimiCheck service worker (src/service-worker.js): cache lifecycle,  *)
(* fetch router and the timetable notification scheduler, as a state       *)
(* machine over the CacheStorage, the wall clock and the handlers' await   *)
(* points.                                                                 *)
(***************************************************************************)
EXTENDS Integers, Sequences, FiniteSets, TLC

\* ---------------------------------------------------------------- bounds
\* The most rows in a timetable read for the ordering of its lines.
MaxRows == 3
\* The most windows open at once.
MaxWindows == 3
\* The clock runs from 2026-01-01T12:00Z (a Thursday) for MaxNow half hours.
MaxNow == 96
\* Slots for timetable checks that may be in flight in the worker.
MaxChecks == 2
\* Slots for syncState runs that may overlap in the page.
MaxRuns == 2
\* The most messages waiting between the page and the worker.
MaxPosted == 4
\* The workers an update may find, and the controllerchange events, in one
\* page lifetime.
MaxWorkers == 1
MaxChanges == 2
\* The most health fetches, and banner fade timeouts, pending at once.
MaxHealthChecks == 2
MaxFades == 1

\* ------------------------------------------------------ program constants
STATIC_CACHE == "dimicheck-static-v4"
RUNTIME_CACHE == "dimicheck-runtime-v4"
TIMETABLE_META_CACHE == "dimicheck-timetable-meta"
\* Stores left behind by the previous worker version.
OldStaticCache == "dimicheck-static-v3"
OldRuntimeCache == "dimicheck-runtime-v3"

\* A URL is an origin and a path; a path is the tuple of its segments.
SelfOrigin == "https://dimicheck.example"
OtherOrigin == "https://open.neis.go.kr"
Url(origin, path) == [origin |-> origin, path |-> path, search |-> ""]
WithSearch(url, search) == [url EXCEPT !.search = search]
TIMETABLE_META_URL == Url(SelfOrigin, <<"__timetable-meta__">>)
CLASS_CONTEXT_URL == Url(SelfOrigin, <<"__class-context__">>)

TIMETABLE_TAG == "dimicheck-timetable"
NoonHour == 12
TargetHour == 6
TargetMinute == 30
\* Korean literals of the source are written in ASCII transliteration.
FallbackBody == "oneul iljeong-eul hwagin-haeboseyo."
NotificationTitle == "siganpyo allim"
PeriodSuffix == "gyosi"

\* ------------------------------------------------------------ JS values
\* The values a message field can carry, and what Number() makes of them.
JsUndefined == [t |-> "undefined", n |-> 0]
JsNull == [t |-> "null", n |-> 0]
JsNaN == [t |-> "nan", n |-> 0]
JsInfinity == [t |-> "infinity", n |-> 0]
JsText == [t |-> "text", n |-> 0]
JsNumber(n) == [t |-> "number", n |-> n]
JsNumericString(n) == [t |-> "numstr", n |-> n]

ToNumber(v) ==
  CASE v.t = "number" -> v
    [] v.t = "numstr" -> JsNumber(v.n)
    [] v.t = "infinity" -> v
    [] v.t = "null" -> JsNumber(0)
    [] OTHER -> JsNaN

\* !v for a number, null or undefined.
Falsy(v) == \/ v.t \in {"undefined", "null", "nan"}
            \/ (v.t = "number" /\ v.n = 0)

\* JSON.stringify then JSON.parse of a number: NaN and Infinity become null.
JsonNumber(v) == IF v.t = "number" THEN v ELSE JsNull

Context(grade, section) == [grade |-> grade, section |-> section]
NullContext == Context(JsUndefined, JsUndefined)

\* ------------------------------------------------------------ responses
TextResponse(text) == [status |-> 200, kind |-> "text", text |-> text]
JsonResponse(json) == [status |-> 200, kind |-> "json", json |-> json]
NoMatch == [status |-> 0, kind |-> "undefined"]

\* --------------------------------------------------------- CacheStorage
\* A sequence of stores in creation order; a store maps request URLs to
\* responses.
NoEntries == <<>>
HasCache(cs, name) == \E i \in 1..Len(cs) : cs[i].name = name
CacheIndex(cs, name) == CHOOSE i \in 1..Len(cs) : cs[i].name = name
CacheKeys(cs) == [i \in 1..Len(cs) |-> cs[i].name]

\* caches.open(name): creates the store when it does not exist.
CachesOpen(cs, name) ==
  IF HasCache(cs, name) THEN cs
  ELSE Append(cs, [name |-> name, entries |-> NoEntries])

\* caches.delete(name)
CachesDelete(cs, name) == SelectSeq(cs, LAMBDA c : c.name # name)

\* cache.match(key) on the store called name.
CacheMatch(cs, name, key) ==
  IF HasCache(cs, name) /\ key \in DOMAIN cs[CacheIndex(cs, name)].entries
  THEN cs[CacheIndex(cs, name)].entries[key]
  ELSE NoMatch

\* cache.put(key, response) on the (opened) store called name.
CachePut(cs, name, key, response) ==
  LET i == CacheIndex(cs, name)
      e == cs[i].entries
  IN [cs EXCEPT ![i].entries =
        [k \in (DOMAIN e) \cup {key} |-> IF k = key THEN response ELSE e[k]]]

\* cache.delete(key) on the (opened) store called name.
CacheDelete(cs, name, key) ==
  LET i == CacheIndex(cs, name)
      e == cs[i].entries
  IN [cs EXCEPT ![i].entries = [k \in (DOMAIN e) \ {key} |-> e[k]]]

\* caches.match(key): the first store in creation order that has the key.
CachesMatch(cs, key) ==
  LET hits == {i \in 1..Len(cs) : key \in DOMAIN cs[i].entries}
  IN IF hits = {} THEN NoMatch
     ELSE cs[CHOOSE i \in hits : \A j \in hits : i <= j].entries[key]

\* --------------------------------------------------------------- clock
\* A Date is an instant, in minutes since 2026-01-01T00:00Z; its local
\* fields are read through the device's timezone offset.
MinutesPerTick == 60 \div 2
MinutesPerDay == 24 * 60
EpochMinutes == 12 * 60
TimezoneOffsets == {0 - 300, 0, 540}

VARIABLES
  caches,       \* the CacheStorage
  activated,    \* whether the activate event has been handled
  now,          \* the wall clock, in ticks since the epoch
  tzOffset,     \* minutes the local time is ahead of UTC
  checks,       \* the triggerTimetableNotification calls, by slot
  displayed,    \* the notification shown under TIMETABLE_TAG, if any
  lastCtxMsg,   \* history: the context of the latest CLASS_CONTEXT message
  sentDay,      \* history: local day of the latest recorded notification
  clearedDay,   \* history: local day a disable removed that day's record
  failedDay,    \* history: local day of a failed showNotification
  fetchEv,      \* the fetch event the router handled last
  pending,      \* requests whose background refresh waitUntil holds
  refreshed,    \* history: the latest response a background refresh stored
  writes,       \* runtime-store puts a handler started and did not await
  manager,      \* the page's NotificationManager and what it relies on
  posted,       \* messages posted to the worker and not yet received
  pwa,          \* the page's registration script (js/pwa.js)
  connection,   \* the page's connectionMonitor (js/storage.js)
  install,      \* the install event: its state and what cache.addAll fetched
  clientWindows, \* the URLs of the open windows, as clients.matchAll lists them
  clickEv,      \* the notificationclick event handled last
  timetableEv   \* the timetable rows read last and the lines made of them

routerVars == <<fetchEv, pending, refreshed, writes>>
scriptVars == <<pwa, connection>>
foregroundVars == <<manager, posted, scriptVars>>
workerVars == <<caches, activated, now, tzOffset, checks, displayed, lastCtxMsg,
                sentDay, clearedDay, failedDay>>
pageVars == <<install, clientWindows, clickEv, timetableEv>>
vars == <<caches, activated, now, tzOffset, checks, displayed,
          lastCtxMsg, sentDay, clearedDay, failedDay, fetchEv, pending,
          refreshed, writes, manager, posted, pwa, connection, install,
          clientWindows, clickEv,
          timetableEv>>

NewDate == EpochMinutes + now * MinutesPerTick
LocalMinutes(date) == date + tzOffset
LocalDay(date) == LocalMinutes(date) \div MinutesPerDay
getDay(date) == (4 + LocalDay(date)) % 7
getHours(date) == (LocalMinutes(date) % MinutesPerDay) \div 60
getDate(date) == 1 + LocalDay(date)
\* date.setHours(h, m, 0, 0), as the resulting instant
setHours(date, h, m) == LocalDay(date) * MinutesPerDay + h * 60 + m - tzOffset
padStart2(n) == IF n < 10 THEN "0" \o ToString(n) ELSE ToString(n)
\* date.toISOString().slice(0, 10): the calendar date in UTC
toISODate(date) == "2026-01-" \o padStart2(1 + date \div MinutesPerDay)
formatYMD(date) == "2026" \o "01" \o padStart2(getDate(date))

\* Fault variant: Saturday counted as a school day.
isWeekdayThroughSaturday(date) == getDay(date) >= 1 /\ getDay(date) <= 6

isWeekday(date) == getDay(date) >= 1 /\ getDay(date) <= 5

\* The three early returns of triggerTimetableNotification before its first
\* await.
WindowGuard(date) ==
  IF ~isWeekday(date) THEN "notWeekday"
  ELSE IF getHours(date) >= NoonHour THEN "afterNoon"
  ELSE IF date < setHours(date, TargetHour, TargetMinute) THEN "beforeTarget"
  ELSE "pass"

\* ------------------------------------------------------------ metadata
\* getLastTimetableDate: the stored text, or "" for null.
getLastTimetableDate(cs) ==
  LET match == CacheMatch(CachesOpen(cs, TIMETABLE_META_CACHE),
                          TIMETABLE_META_CACHE, TIMETABLE_META_URL)
  IN IF match = NoMatch THEN "" ELSE match.text

setLastTimetableDate(cs, dateKey) ==
  CachePut(CachesOpen(cs, TIMETABLE_META_CACHE), TIMETABLE_META_CACHE,
           TIMETABLE_META_URL, TextResponse(dateKey))

\* Fault variant: the dedup entry is left in place.
clearTimetableMetaKeepsDate(cs) == CachesOpen(cs, TIMETABLE_META_CACHE)

\* Fault variant: the class context is deleted along with the dedup entry.
clearTimetableMetaAll(cs) ==
  CacheDelete(CacheDelete(CachesOpen(cs, TIMETABLE_META_CACHE),
                          TIMETABLE_META_CACHE, TIMETABLE_META_URL),
              TIMETABLE_META_CACHE, CLASS_CONTEXT_URL)

clearTimetableMeta(cs) ==
  CacheDelete(CachesOpen(cs, TIMETABLE_META_CACHE), TIMETABLE_META_CACHE,
              TIMETABLE_META_URL)

\* Whether a context passes the test "!grade || !section" of the source.
ValidContext(context) == ~Falsy(context.grade) /\ ~Falsy(context.section)

\* Fault variant: an invalid context leaves the stored one in place.
storeClassContextKeepsStale(cs, context) ==
  LET opened == CachesOpen(cs, TIMETABLE_META_CACHE)
      numbers == Context(ToNumber(context.grade), ToNumber(context.section))
  IN IF ~ValidContext(numbers) THEN opened
     ELSE CachePut(opened, TIMETABLE_META_CACHE, CLASS_CONTEXT_URL,
                   JsonResponse(Context(JsonNumber(numbers.grade),
                                        JsonNumber(numbers.section))))

storeClassContext(cs, context) ==
  LET opened == CachesOpen(cs, TIMETABLE_META_CACHE)
      numbers == Context(ToNumber(context.grade), ToNumber(context.section))
  IN IF ~ValidContext(numbers)
     THEN CacheDelete(opened, TIMETABLE_META_CACHE, CLASS_CONTEXT_URL)
     ELSE CachePut(opened, TIMETABLE_META_CACHE, CLASS_CONTEXT_URL,
                   JsonResponse(Context(JsonNumber(numbers.grade),
                                        JsonNumber(numbers.section))))

getClassContext(cs) ==
  LET match == CacheMatch(CachesOpen(cs, TIMETABLE_META_CACHE),
                          TIMETABLE_META_CACHE, CLASS_CONTEXT_URL)
  IN IF match = NoMatch THEN NullContext
     ELSE LET numbers == Context(ToNumber(match.json.grade),
                                 ToNumber(match.json.section))
          IN IF ~ValidContext(numbers) THEN NullContext ELSE numbers

\* ------------------------------------------------------- timetable fetch
Row(period, subject) == [period |-> period, subject |-> subject]
\* period: Number(row.PERIO || ...) || null, with 0 for null;
\* subject: normalizeSubject(row), "" when no field names one.

\* The comparator handed to Array.prototype.sort.
ComparePeriods(a, b) ==
  IF a.period = 0 THEN 1
  ELSE IF b.period = 0 THEN 0 - 1
  ELSE a.period - b.period

\* Array.prototype.sort on a short array: binary insertion, as V8 does it.
RECURSIVE BinarySearch(_, _, _, _)
BinarySearch(sorted, pivot, left, right) ==
  IF left >= right THEN left
  ELSE LET mid == left + (right - left) \div 2
       IN IF ComparePeriods(pivot, sorted[mid + 1]) < 0
          THEN BinarySearch(sorted, pivot, left, mid)
          ELSE BinarySearch(sorted, pivot, mid + 1, right)

RECURSIVE SortFrom(_, _)
SortFrom(items, i) ==
  IF i > Len(items) THEN items
  ELSE LET pivot == items[i]
           at == BinarySearch(items, pivot, 0, i - 1)
           moved == SubSeq(items, 1, at) \o <<pivot>> \o SubSeq(items, at + 1, i - 1)
                    \o SubSeq(items, i + 1, Len(items))
       IN SortFrom(moved, i + 1)

SortItems(items) == SortFrom(items, 2)

\* The comparator is not consistent (two items without a period each sort
\* after the other), so the order sort leaves them in is the engine's to
\* choose. Besides binary insertion, the insertion sort of other engines:
\* an item moves left past every item the comparator puts after it.
RECURSIVE InsertAt(_, _, _)
InsertAt(sorted, item, j) ==
  IF j = 0 \/ ComparePeriods(sorted[j], item) <= 0
  THEN SubSeq(sorted, 1, j) \o <<item>> \o SubSeq(sorted, j + 1, Len(sorted))
  ELSE InsertAt(sorted, item, j - 1)

RECURSIVE InsertionSort(_, _)
InsertionSort(items, i) ==
  IF i > Len(items) THEN items
  ELSE InsertionSort(InsertAt(SubSeq(items, 1, i - 1), items[i], i - 1)
                     \o SubSeq(items, i + 1, Len(items)), i + 1)

Engines == {"binaryInsertion", "insertion"}
SortItemsOn(engine, items) ==
  IF engine = "binaryInsertion" THEN SortItems(items) ELSE InsertionSort(items, 2)

Label(item, index) ==
  (IF item.period # 0 THEN ToString(item.period) ELSE ToString(index))
  \o PeriodSuffix \o ": " \o item.subject

TimetableLines(rows) ==
  LET sorted == SortItems(SelectSeq(rows, LAMBDA item : item.subject # ""))
  IN [i \in 1..Len(sorted) |-> Label(sorted[i], i)]

TimetableLinesOn(engine, rows) ==
  LET sorted == SortItemsOn(engine, SelectSeq(rows, LAMBDA item : item.subject # ""))
  IN [i \in 1..Len(sorted) |-> Label(sorted[i], i)]

\* What the NEIS request can come to.
Outcome(kind, rows) == [kind |-> kind, rows |-> rows]
SampleRows == { <<Row(2, "suhak"), Row(1, "gugeo")>> }
FetchFailures == {"reject", "notOk", "badJson", "noTable"}
FetchOutcomes ==
  {Outcome(kind, <<>>) : kind \in FetchFailures \cup {"noRows"}}
  \cup {Outcome("rows", rows) : rows \in SampleRows}

\* Fault variant: a rejected request is not caught.
fetchTodayTimetableUncaught(outcome) ==
  [threw |-> outcome.kind = "reject",
   lines |-> IF outcome.kind = "rows" THEN TimetableLines(outcome.rows) ELSE <<>>]

\* fetchTodayTimetable: the lines, and whether an error left the function.
fetchTodayTimetable(outcome) ==
  [threw |-> FALSE,
   lines |-> IF outcome.kind = "rows" THEN TimetableLines(outcome.rows) ELSE <<>>]

RECURSIVE Join(_)
Join(lines) ==
  IF Len(lines) = 0 THEN ""
  ELSE IF Len(lines) = 1 THEN lines[1]
  ELSE lines[1] \o "\n" \o Join(Tail(lines))

NotificationBody(lines) == IF Len(lines) # 0 THEN Join(lines) ELSE FallbackBody

NoNotification == [title |-> "", body |-> "", tag |-> "", url |-> <<>>]
TimetableNotification(lines) ==
  [title |-> NotificationTitle, body |-> NotificationBody(lines),
   tag |-> TIMETABLE_TAG, url |-> <<"routine.html">>]

\* ----------------------------------------------------------- the router
PRECACHE_URLS == << <<"">>, <<"login.html">>, <<"main.css">>, <<"js", "pwa.js">> >>
PageResponse(status, version) == [status |-> status, kind |-> "page", version |-> version]
Request(method, url, mode) == [method |-> method, url |-> url, mode |-> mode]
ok(response) == response.status >= 200 /\ response.status <= 299
\* fetch(request) rejected; the error a handler throws.
Rejected == [status |-> 0, kind |-> "rejected"]
NetworkError == [status |-> 0, kind |-> "error"]

\* url.pathname.startsWith(prefix), for a prefix "/segment/"
startsWith(path, segment) == Len(path) >= 2 /\ path[1] = segment

RouteIgnoresMethod(request) ==
  IF /\ request.url.origin = SelfOrigin
     /\ \/ startsWith(request.url.path, "api")
        \/ startsWith(request.url.path, "auth")
        \/ request.url.path = <<"me">>
  THEN "api"
  ELSE IF request.url.origin # SelfOrigin THEN "passthrough"
  ELSE IF request.mode = "navigate" THEN "navigate"
  ELSE "asset"

\* Fault variant: the request mode is looked at before the path.
RouteNavigateFirst(request) ==
  IF request.method # "GET" THEN "passthrough"
  ELSE IF request.url.origin # SelfOrigin THEN "passthrough"
  ELSE IF request.mode = "navigate" THEN "navigate"
  ELSE IF \/ startsWith(request.url.path, "api")
          \/ startsWith(request.url.path, "auth")
          \/ request.url.path = <<"me">>
       THEN "api"
  ELSE "asset"

\* Where the fetch listener sends a request.
Route(request) ==
  IF request.method # "GET" THEN "passthrough"
  ELSE IF /\ request.url.origin = SelfOrigin
          /\ \/ startsWith(request.url.path, "api")
             \/ startsWith(request.url.path, "auth")
             \/ request.url.path = <<"me">>
       THEN "api"
  ELSE IF request.url.origin # SelfOrigin THEN "passthrough"
  ELSE IF request.mode = "navigate" THEN "navigate"
  ELSE "asset"

\* What a handler answers with, the CacheStorage it leaves, whether it read
\* a store, and the background refresh it started (if any).
Answer(response, cs, cacheRead, refresh) ==
  [response |-> response, caches |-> cs, cacheRead |-> cacheRead,
   refresh |-> refresh]

ApiRequestCacheFirst(cs, request, net) ==
  LET cached == CachesMatch(cs, request.url)
  IN IF cached # NoMatch THEN [response |-> cached, caches |-> cs,
                               cacheRead |-> TRUE, refresh |-> {}]
     ELSE IF net # Rejected THEN [response |-> net, caches |-> cs,
                                  cacheRead |-> TRUE, refresh |-> {}]
     ELSE [response |-> NetworkError, caches |-> cs,
           cacheRead |-> TRUE, refresh |-> {}]

\* fetch(request).catch(async () => caches.match(request) or throw)
ApiRequest(cs, request, net) ==
  IF net # Rejected THEN Answer(net, cs, FALSE, {})
  ELSE LET fallback == CachesMatch(cs, request.url)
       IN IF fallback # NoMatch THEN Answer(fallback, cs, TRUE, {})
          ELSE Answer(NetworkError, cs, TRUE, {})

\* What becomes of the handler's use of the runtime store: caches.open and
\* cache.put are promises, and either may reject.
StorageOutcomes == {"ok", "openFails", "putFails"}

\* The catch block of handleNavigationRequest.
NavigationFallback(cs, request) ==
  LET cached == CachesMatch(cs, request.url)
      fallback == CachesMatch(cs, Url(SelfOrigin, <<"index.html">>))
  IN IF cached # NoMatch THEN Answer(cached, cs, TRUE, {})
     ELSE IF fallback # NoMatch THEN Answer(fallback, cs, TRUE, {})
     ELSE Answer(NetworkError, cs, TRUE, {})

handleNavigationRequestStoresPartial(cs, request, net, storage) ==
  IF net = Rejected \/ storage = "openFails" THEN NavigationFallback(cs, request)
  ELSE IF ok(net) /\ storage = "ok"
       THEN [response |-> net,
             caches |-> CachePut(CachesOpen(cs, RUNTIME_CACHE), RUNTIME_CACHE,
                                 request.url, net),
             cacheRead |-> FALSE, refresh |-> {}]
       ELSE [response |-> net, caches |-> CachesOpen(cs, RUNTIME_CACHE),
             cacheRead |-> FALSE, refresh |-> {}]

\* The put is not awaited: when it rejects, the response is returned all
\* the same, and when it has not completed by then ("putPending") the
\* entry is written later. caches.open is awaited inside the try block.
handleNavigationRequest(cs, request, net, storage) ==
  IF net = Rejected \/ storage = "openFails" THEN NavigationFallback(cs, request)
  ELSE LET opened == CachesOpen(cs, RUNTIME_CACHE)
       IN IF ok(net) /\ net.status # 206 /\ storage = "ok"
          THEN Answer(net, CachePut(opened, RUNTIME_CACHE, request.url, net), FALSE, {})
          ELSE Answer(net, opened, FALSE, {})

\* The put handleNavigationRequest leaves running when it returns.
UnawaitedPut(route, request, net, storage) ==
  IF /\ route = "navigate" /\ storage = "putPending"
     /\ net # Rejected /\ ok(net) /\ net.status # 206
  THEN {[url |-> request.url, response |-> net]}
  ELSE {}

\* PRECACHE_SET.has(url.pathname)
InPrecacheSet(path) == \E i \in 1..Len(PRECACHE_URLS) : PRECACHE_URLS[i] = path

\* The catch block of handleAssetRequest.
AssetFallback(cs, request) ==
  LET fallback == IF InPrecacheSet(request.url.path)
                  THEN CachesMatch(cs, Url(SelfOrigin, request.url.path))
                  ELSE NoMatch
  IN IF fallback # NoMatch THEN Answer(fallback, cs, TRUE, {})
     ELSE Answer(NetworkError, cs, TRUE, {})

\* Both caches.open and the put are awaited inside the try block.
handleAssetRequest(cs, request, net, storage) ==
  LET cached == CachesMatch(cs, request.url)
  IN IF cached # NoMatch THEN Answer(cached, cs, TRUE, {request.url})
     ELSE IF net = Rejected THEN AssetFallback(cs, request)
     ELSE IF ok(net) /\ net.status # 206
     THEN CASE storage \in {"ok", "putPending"} ->
                 Answer(net, CachePut(CachesOpen(cs, RUNTIME_CACHE), RUNTIME_CACHE,
                                      request.url, net), TRUE, {})
            [] storage = "openFails" -> AssetFallback(cs, request)
            [] OTHER -> AssetFallback(CachesOpen(cs, RUNTIME_CACHE), request)
     ELSE Answer(net, cs, TRUE, {})

\* updateRuntimeCache(request): whether it stores the response, and the
\* CacheStorage it leaves; every failure is caught and ignored.
Refreshes(net, storage) ==
  net # Rejected /\ ok(net) /\ net.status # 206 /\ storage \in {"ok", "putPending"}
updateRuntimeCache(cs, url, net, storage) ==
  IF Refreshes(net, storage)
  THEN CachePut(CachesOpen(cs, RUNTIME_CACHE), RUNTIME_CACHE, url, net)
  ELSE IF net # Rejected /\ ok(net) /\ net.status # 206 /\ storage = "putFails"
  THEN CachesOpen(cs, RUNTIME_CACHE)
  ELSE cs

\* No fetch event has been handled yet; no refresh has stored anything.
NoFetch ==
  [request |-> Request("", Url("", <<>>), ""), route |-> "", intercepted |-> FALSE,
   net |-> Rejected, storage |-> "ok", response |-> Rejected, cacheRead |-> FALSE]
NoRefresh == [url |-> Url("", <<>>), response |-> NoMatch]

\* ------------------------------------------------------------ the state
Slots == 1..MaxChecks
NoDay == 0 - 1
NeverSent == Context([t |-> "never", n |-> 0], [t |-> "never", n |-> 0])

\* The context argument of a CLASS_CONTEXT message (a missing context reads
\* as two undefined fields through "context?.grade").
ContextArgs ==
  { Context(JsNumber(2), JsNumber(3)),
    Context(JsNumericString(1), JsNumericString(1)),
    Context(JsNumber(0), JsNumber(3)),
    Context(JsNumber(0 - 1), JsNumber(3)),
    Context(JsNumber(2), JsText),
    Context(JsInfinity, JsNumber(3)),
    NullContext }

Message(type, enabled, context) ==
  [type |-> type, enabled |-> enabled, context |-> context]
Messages ==
  {Message("TIMETABLE_FORCE_CHECK", "undefined", NullContext)}
  \cup {Message("TIMETABLE_PREF_CHANGED", e, NullContext) : e \in {"true", "false"}}
  \cup {Message("CLASS_CONTEXT", "undefined", c) : c \in ContextArgs}

IdleCheck ==
  [pc |-> "idle", result |-> "none", dateKey |-> "", context |-> NullContext,
   ctxMsg |-> NeverSent, fetched |-> "none", lines |-> <<>>, shown |-> FALSE,
   sawSent |-> FALSE, afterClear |-> FALSE, afterFail |-> FALSE]

\* A call is in flight until the promise handed to waitUntil has settled.
InFlight(c) == checks[c].pc # "idle"
Running(c) == checks[c].pc \notin {"idle", "done"}
NumInFlight == Cardinality({c \in Slots : InFlight(c)})
Today == LocalDay(NewDate)

\* A call that has returned: only its result and history flags are kept.
Returned(check, result) ==
  [IdleCheck EXCEPT !.pc = "done", !.result = result,
                    !.sawSent = check.sawSent,
                    !.afterClear = check.afterClear,
                    !.afterFail = check.afterFail]

\* The precache manifest (four of its 29 entries).
PrecachedEntries ==
  [u \in {Url(SelfOrigin, PRECACHE_URLS[i]) : i \in 1..Len(PRECACHE_URLS)}
     |-> PageResponse(200, 1)]
Store(name, entries) == [name |-> name, entries |-> entries]

\* The NotificationManager before init has run, on a platform without
\* periodic background sync. intervals counts the setInterval timers that
\* are running; ended, lastPref, forcedSince and requested are history:
\* the channel operation that has just completed and how its registration
\* went, the enabled field of the latest TIMETABLE_PREF_CHANGED posted,
\* whether a TIMETABLE_FORCE_CHECK was posted after it, and the local day
\* of the latest check a timer tick asked for.
Runs == 1..MaxRuns
NotEnded == [op |-> "none", registration |-> "none"]
NoManager ==
  [periodicSync |-> FALSE, timetableNotifications |-> FALSE,
   periodicSupported |-> FALSE, fallbackTimer |-> FALSE, intervals |-> 0,
   stored |-> "", tags |-> FALSE, runs |-> [r \in Runs |-> "idle"],
   ended |-> NotEnded, lastPref |-> "none", forcedSince |-> FALSE,
   requested |-> NoDay]

\* js/pwa.js when the script has run and the page has not loaded yet, in a
\* page no worker controls. changes, changeEvents, updates and reloads
\* count the controllerchange events, the two kinds of event the script
\* dispatched, and the calls of window.location.reload.
Workers == 1..MaxWorkers
NotLoaded ==
  [registration |-> "none", waiting |-> FALSE, listening |-> FALSE,
   controller |-> FALSE, refreshing |-> FALSE,
   workers |-> [w \in Workers |-> "none"], listened |-> [w \in Workers |-> FALSE],
   changes |-> 0, changeEvents |-> 0, updates |-> 0, reloads |-> 0]

\* connectionMonitor as constructed, with the banner element and
\* window.forceResyncState present. intervals counts the health intervals
\* running, checks the health fetches in flight, resyncs the resync chains
\* that have not settled, fades the 250 ms timeouts of hideBanner.
Connected ==
  [state |-> "online", healthTimer |-> FALSE, hideTimer |-> FALSE,
   resyncInFlight |-> FALSE, hasBanner |-> TRUE, canResync |-> TRUE,
   banner |-> "none", visible |-> FALSE, hidden |-> TRUE,
   intervals |-> 0, checks |-> 0, resyncs |-> 0, fades |-> 0]

\* The parts of the worker a specification leaves at rest: installed, no
\* window open, no click handled, no timetable read.
Installed ==
  [state |-> "installed",
   fetched |-> [i \in 1..Len(PRECACHE_URLS) |-> PageResponse(200, 1)]]
NoClick == [target |-> <<>>, closed |-> FALSE, focused |-> <<>>, opened |-> <<>>]
NoTimetable == [engine |-> "", rows |-> <<>>, lines |-> <<>>, read |-> TRUE]
AtRest ==
  /\ refreshed = NoRefresh
  /\ writes = {}
  /\ manager = NoManager
  /\ posted = <<>>
  /\ pwa = NotLoaded
  /\ connection = Connected
  /\ install = Installed
  /\ clientWindows = <<>>
  /\ clickEv = NoClick
  /\ timetableEv = NoTimetable

\* The stores the worker finds when its script is first run: none but its
\* own precache (a first install), those of the previous version (an
\* upgrade), or its own from an earlier run (a restart).
PreviousDates == {"", "2025-12-31", "2026-01-01"}
WithMeta(cs, last, msg) ==
  LET dated == IF last = "" THEN cs ELSE setLastTimetableDate(cs, last)
  IN IF msg = NeverSent THEN dated ELSE storeClassContext(dated, msg)
InitialCaches(kind, last, msg) ==
  CASE kind = "fresh" -> <<Store(STATIC_CACHE, PrecachedEntries)>>
    [] kind = "upgrade" ->
         Append(WithMeta(<<Store(OldStaticCache, PrecachedEntries),
                           Store(OldRuntimeCache, NoEntries)>>, last, msg),
                Store(STATIC_CACHE, PrecachedEntries))
    [] OTHER ->
         WithMeta(<<Store(STATIC_CACHE, PrecachedEntries),
                    Store(RUNTIME_CACHE, NoEntries)>>, last, msg)

Init ==
  /\ \E kind \in {"fresh", "upgrade", "restart"}, last \in PreviousDates,
        msg \in ContextArgs \cup {NeverSent} :
       /\ kind = "fresh" => (last = "" /\ msg = NeverSent)
       /\ caches = InitialCaches(kind, last, msg)
       /\ activated = (kind = "restart")
       /\ lastCtxMsg = msg
  /\ now = 0
  /\ tzOffset \in TimezoneOffsets
  /\ checks = [c \in Slots |-> IdleCheck]
  /\ displayed = NoNotification
  /\ sentDay = NoDay
  /\ clearedDay = NoDay
  /\ failedDay = NoDay
  /\ fetchEv = NoFetch
  /\ pending = {}
  /\ AtRest

\* ------------------------------------------------------------ lifecycle
ActivateKeepsOldRuntime(key) == key \in {STATIC_CACHE, RUNTIME_CACHE, OldRuntimeCache}

\* The stores the activate handler keeps.
ActivateKeeps(key) == key \in {STATIC_CACHE, RUNTIME_CACHE}

\* caches.keys(), then caches.delete for every key that is not kept.
RECURSIVE DeleteEach(_, _)
DeleteEach(cs, keys) ==
  IF keys = <<>> THEN cs
  ELSE DeleteEach(IF ActivateKeeps(Head(keys)) THEN cs ELSE CachesDelete(cs, Head(keys)),
                  Tail(keys))
ActivateCleanup(cs) == DeleteEach(cs, CacheKeys(cs))

Activate ==
  /\ install.state = "installed"
  /\ ~activated
  /\ activated' = TRUE
  /\ caches' = ActivateCleanup(caches)
  /\ UNCHANGED <<now, tzOffset, checks, displayed, lastCtxMsg, sentDay,
                 clearedDay, failedDay>>
  /\ UNCHANGED <<routerVars, pageVars, foregroundVars>>

\* cache.addAll(PRECACHE_URLS): every URL is fetched; the entries are
\* written together, and only when every response is OK and not partial.
PrecacheUrl(i) == Url(SelfOrigin, PRECACHE_URLS[i])
Cacheable(response) == response # Rejected /\ ok(response) /\ response.status # 206
RECURSIVE PutEach(_, _, _, _)
PutEach(cs, name, fetched, i) ==
  IF i > Len(fetched) THEN cs
  ELSE PutEach(IF Cacheable(fetched[i])
               THEN CachePut(cs, name, PrecacheUrl(i), fetched[i]) ELSE cs,
               name, fetched, i + 1)
addAllKeepsFetched(cs, name, fetched) == PutEach(cs, name, fetched, 1)
addAll(cs, name, fetched) ==
  IF \A i \in 1..Len(fetched) : Cacheable(fetched[i])
  THEN PutEach(cs, name, fetched, 1)
  ELSE cs

\* The install event; fetched[i] is what the network makes of the i-th URL
\* of the manifest. A worker whose install failed is discarded.
Installing == [state |-> "installing", fetched |-> <<>>]
InstallOutcomes == {Rejected, PageResponse(200, 2), PageResponse(404, 2)}
Install(fetched) ==
  /\ install.state = "installing"
  /\ caches' = addAll(CachesOpen(caches, STATIC_CACHE), STATIC_CACHE, fetched)
  /\ install' =
       [state |-> IF \A i \in 1..Len(fetched) : Cacheable(fetched[i])
                  THEN "installed" ELSE "failed",
        fetched |-> fetched]
  /\ UNCHANGED <<activated, now, tzOffset, checks, displayed, lastCtxMsg,
                 sentDay, clearedDay, failedDay, clientWindows, clickEv,
                 timetableEv>>
  /\ UNCHANGED <<routerVars, foregroundVars>>

\* ---------------------------------------------------- notificationclick
\* The notifications a click can come from: the timetable notification, a
\* chat notification of the page, and one that carries no data.
ChatNotification == [tag |-> "chat-1", url |-> <<"chat.html">>]
BareNotification == [tag |-> "bare", url |-> <<>>]

\* event.notification?.data?.url || '/'
targetUrl(notification) == IF notification.url = <<>> THEN <<"">> ELSE notification.url

Clicked(focused, opened) == [focused |-> focused, opened |-> opened]

openOrFocusClientThenOpens(clientsList, url) ==
  LET target == Url(SelfOrigin, url)
      matching == {i \in 1..Len(clientsList) : clientsList[i].path = target.path}
  IN IF matching # {}
     THEN [focused |-> <<CHOOSE i \in matching : \A j \in matching : i <= j>>,
           opened |-> <<target>>]
     ELSE [focused |-> <<>>, opened |-> <<target>>]

\* The first window of clients.matchAll whose pathname is the target's is
\* focused; when there is none, a window is opened at the target.
openOrFocusClient(clientsList, url) ==
  LET target == Url(SelfOrigin, url)
      matching == {i \in 1..Len(clientsList) : clientsList[i].path = target.path}
  IN IF matching # {}
     THEN Clicked(<<CHOOSE i \in matching : \A j \in matching : i <= j>>, <<>>)
     ELSE Clicked(<<>>, <<target>>)

OnNotificationClick(notification) ==
  /\ notification.tag = TIMETABLE_TAG => notification = displayed
  /\ LET url == targetUrl(notification)
         done == openOrFocusClient(clientWindows, url)
     IN /\ Len(clientWindows) + Len(done.opened) <= MaxWindows
        /\ clickEv' = [target |-> url, closed |-> TRUE,
                       focused |-> done.focused, opened |-> done.opened]
        /\ clientWindows' = clientWindows \o done.opened
  /\ displayed' = IF notification.tag = TIMETABLE_TAG THEN NoNotification
                  ELSE displayed
  /\ UNCHANGED <<caches, activated, now, tzOffset, checks, lastCtxMsg, sentDay,
                 clearedDay, failedDay, install, timetableEv>>
  /\ UNCHANGED <<routerVars, foregroundVars>>

\* The user closes a window.
CloseWindow(i) ==
  /\ i \in 1..Len(clientWindows)
  /\ clientWindows' = SubSeq(clientWindows, 1, i - 1)
                        \o SubSeq(clientWindows, i + 1, Len(clientWindows))
  /\ UNCHANGED <<caches, activated, now, tzOffset, checks, displayed, lastCtxMsg,
                 sentDay, clearedDay, failedDay, install, clickEv, timetableEv>>
  /\ UNCHANGED <<routerVars, foregroundVars>>

\* The rows of a timetable are made into the lines of the notification.
ReadTimetable ==
  /\ ~timetableEv.read
  /\ timetableEv' =
       [timetableEv EXCEPT !.read = TRUE,
                           !.lines = TimetableLinesOn(timetableEv.engine, timetableEv.rows)]
  /\ UNCHANGED <<caches, activated, now, tzOffset, checks, displayed, lastCtxMsg,
                 sentDay, clearedDay, failedDay, install, clientWindows, clickEv>>
  /\ UNCHANGED <<routerVars, foregroundVars>>

\* Time passes between the worker's events.
Tick ==
  /\ now < MaxNow
  /\ NumInFlight = 0
  /\ now' = now + 1
  /\ UNCHANGED <<caches, activated, tzOffset, checks, displayed, lastCtxMsg,
                 sentDay, clearedDay, failedDay>>
  /\ UNCHANGED <<routerVars, pageVars, foregroundVars>>

\* ------------------------------------------------- timetable notification
\* triggerTimetableNotification up to its first await, in the lowest free
\* slot; at most limit calls are in flight.
TriggerTimetableNotification(limit) ==
  /\ NumInFlight < limit
  /\ LET c == CHOOSE f \in Slots : ~InFlight(f) /\ \A g \in Slots : ~InFlight(g) => f <= g
         date == NewDate
         guard == WindowGuard(date)
         call == [IdleCheck EXCEPT !.sawSent = (sentDay = Today),
                                   !.afterClear = (clearedDay = Today),
                                   !.afterFail = (failedDay = Today)]
     IN checks' = [checks EXCEPT ![c] =
                     IF guard # "pass" THEN Returned(call, guard)
                     ELSE [call EXCEPT !.pc = "getLast", !.dateKey = toISODate(date)]]
  /\ UNCHANGED <<caches, activated, now, tzOffset, displayed, lastCtxMsg,
                 sentDay, clearedDay, failedDay>>
  /\ UNCHANGED <<routerVars, pageVars>>

\* const last = await getLastTimetableDate(); if (last === dateKey) return;
AwaitLastTimetableDate(c) ==
  /\ checks[c].pc = "getLast"
  /\ caches' = CachesOpen(caches, TIMETABLE_META_CACHE)
  /\ checks' = [checks EXCEPT ![c] =
                  IF getLastTimetableDate(caches) = checks[c].dateKey
                  THEN Returned(checks[c], "dedup")
                  ELSE [checks[c] EXCEPT !.pc = "getCtx"]]
  /\ UNCHANGED <<activated, now, tzOffset, displayed, lastCtxMsg, sentDay,
                 clearedDay, failedDay>>
  /\ UNCHANGED <<routerVars, pageVars, foregroundVars>>

\* const context = await getClassContext(); if (!context || ...) return;
AwaitClassContext(c) ==
  /\ checks[c].pc = "getCtx"
  /\ caches' = CachesOpen(caches, TIMETABLE_META_CACHE)
  /\ LET context == getClassContext(caches)
     IN checks' = [checks EXCEPT ![c] =
                     IF ~ValidContext(context)
                     THEN Returned(checks[c], "noContext")
                     ELSE [checks[c] EXCEPT !.pc = "fetch", !.context = context,
                                            !.ctxMsg = lastCtxMsg]]
  /\ UNCHANGED <<activated, now, tzOffset, displayed, lastCtxMsg, sentDay,
                 clearedDay, failedDay>>
  /\ UNCHANGED <<routerVars, pageVars, foregroundVars>>

\* const timetableLines = await fetchTodayTimetable(grade, section, now);
AwaitTodayTimetable(c, outcome) ==
  /\ checks[c].pc = "fetch"
  /\ LET got == fetchTodayTimetable(outcome)
     IN checks' = [checks EXCEPT ![c] =
                     IF got.threw THEN Returned(checks[c], "threw")
                     ELSE [checks[c] EXCEPT !.pc = "show",
                                            !.fetched = IF outcome.kind \in FetchFailures
                                                        THEN "failed" ELSE "ok",
                                            !.lines = got.lines]]
  /\ UNCHANGED <<caches, activated, now, tzOffset, displayed, lastCtxMsg,
                 sentDay, clearedDay, failedDay>>
  /\ UNCHANGED <<routerVars, pageVars, foregroundVars>>

\* Fault variant: the date is recorded whether or not the display worked.
AfterShowAlwaysRecords(shown) == "setLast"

\* Where the call goes on after showNotification settled.
AfterShow(shown) == IF shown THEN "setLast" ELSE "catch"

\* await self.registration.showNotification(...), which resolves or rejects.
AwaitShowNotification(c, shown) ==
  /\ checks[c].pc = "show"
  /\ displayed' = IF shown THEN TimetableNotification(checks[c].lines) ELSE displayed
  /\ checks' = [checks EXCEPT ![c] =
                  IF AfterShow(shown) = "setLast"
                  THEN [checks[c] EXCEPT !.pc = "setLast", !.shown = shown]
                  ELSE Returned(checks[c], IF shown THEN "shown" ELSE "showFailed")]
  /\ failedDay' = IF shown THEN NoDay ELSE Today
  /\ UNCHANGED <<caches, activated, now, tzOffset, lastCtxMsg, sentDay, clearedDay>>
  /\ UNCHANGED <<routerVars, pageVars, foregroundVars>>

\* await setLastTimetableDate(dateKey);
AwaitSetLastTimetableDate(c) ==
  /\ checks[c].pc = "setLast"
  /\ caches' = setLastTimetableDate(caches, checks[c].dateKey)
  /\ checks' = [checks EXCEPT ![c] = Returned(checks[c], "shown")]
  /\ sentDay' = Today
  /\ clearedDay' = NoDay
  /\ UNCHANGED <<activated, now, tzOffset, displayed, lastCtxMsg, failedDay>>
  /\ UNCHANGED <<routerVars, pageVars, foregroundVars>>

\* The promise handed to event.waitUntil settles.
Settle(c) ==
  /\ checks[c].pc = "done"
  /\ checks' = [checks EXCEPT ![c] = IdleCheck]
  /\ UNCHANGED <<caches, activated, now, tzOffset, displayed, lastCtxMsg,
                 sentDay, clearedDay, failedDay>>
  /\ UNCHANGED <<routerVars, pageVars, foregroundVars>>

\* ------------------------------------------------------------- messages
\* await clearTimetableMeta(), on TIMETABLE_PREF_CHANGED with enabled false
HandlePrefDisabled ==
  /\ caches' = clearTimetableMeta(caches)
  /\ clearedDay' = IF sentDay = Today /\ NumInFlight = 0 THEN Today ELSE NoDay
  /\ sentDay' = NoDay
  /\ checks' = [c \in Slots |-> [checks[c] EXCEPT !.sawSent = FALSE]]
  /\ UNCHANGED <<activated, now, tzOffset, displayed, lastCtxMsg, failedDay>>
  /\ UNCHANGED <<routerVars, pageVars>>

\* await storeClassContext(data.context), on CLASS_CONTEXT
HandleClassContext(context) ==
  /\ caches' = storeClassContext(caches, context)
  /\ lastCtxMsg' = context
  /\ UNCHANGED <<activated, now, tzOffset, checks, displayed, sentDay,
                 clearedDay, failedDay>>
  /\ UNCHANGED <<routerVars, pageVars>>

\* The message listener, given the event's data.
HandleMessage(data, limit) ==
  /\ activated
  /\ data.type = "CLASS_CONTEXT" => data.context \in limit.contexts
  /\ IF data.type = "TIMETABLE_FORCE_CHECK"
     THEN TriggerTimetableNotification(limit.checks)
     ELSE IF data.type = "TIMETABLE_PREF_CHANGED" /\ data.enabled = "false"
     THEN HandlePrefDisabled
     ELSE IF data.type = "CLASS_CONTEXT"
     THEN HandleClassContext(data.context)
     ELSE UNCHANGED <<workerVars, routerVars, pageVars>>

\* A message event, whoever posted the message.
OnMessage(data, limit) ==
  /\ HandleMessage(data, limit)
  /\ UNCHANGED foregroundVars

\* A message event for the oldest message the manager posted.
ReceiveMessage(limit) ==
  /\ posted # <<>>
  /\ posted' = Tail(posted)
  /\ UNCHANGED <<manager, scriptVars>>
  /\ HandleMessage(Head(posted), limit)

\* The periodicsync listener.
OnPeriodicSync(tag, limit) ==
  /\ activated
  /\ IF tag = TIMETABLE_TAG THEN TriggerTimetableNotification(limit.checks)
     ELSE UNCHANGED vars
  /\ UNCHANGED foregroundVars

\* ---------------------------------------------------------------- fetch
\* The requests the pages make, and what the network does with one.
ApiUrl == Url(SelfOrigin, <<"api", "votes">>)
RootUrl == Url(SelfOrigin, <<"">>)
StyleUrl == Url(SelfOrigin, <<"main.css">>)
ScriptUrl == Url(SelfOrigin, <<"js", "app.js">>)
ChatUrl == Url(SelfOrigin, <<"chat.html">>)
IndexUrl == Url(SelfOrigin, <<"index.html">>)
Requests ==
  { Request("GET", RootUrl, "navigate"),
    Request("GET", StyleUrl, "no-cors"),
    Request("GET", ScriptUrl, "no-cors"),
    Request("GET", ApiUrl, "cors"),
    Request("GET", Url(SelfOrigin, <<"api">>), "cors"),
    Request("GET", ApiUrl, "navigate"),
    Request("GET", Url(SelfOrigin, <<"auth", "status">>), "cors"),
    Request("GET", Url(SelfOrigin, <<"me">>), "cors"),
    Request("POST", ApiUrl, "cors"),
    Request("POST", StyleUrl, "cors"),
    Request("GET", Url(OtherOrigin, <<"api", "votes">>), "cors"),
    Request("GET", Url(OtherOrigin, <<"main.css">>), "no-cors"),
    Request("POST", Url(OtherOrigin, <<"main.css">>), "cors") }
RequestUrls == {request.url : request \in Requests}
NetworkOutcomes ==
  {Rejected, PageResponse(200, 2), PageResponse(206, 2), PageResponse(404, 2)}

\* The fetch listener, with the handler it hands to respondWith run to its
\* end; net is what the network makes of the request.
OnFetch(request, net, storage) ==
  /\ activated
  /\ LET route == Route(request)
         answer ==
           CASE route = "api" -> ApiRequest(caches, request, net)
             [] route = "navigate" ->
                  handleNavigationRequest(caches, request, net, storage)
             [] route = "asset" -> handleAssetRequest(caches, request, net, storage)
             [] OTHER -> Answer(net, caches, FALSE, {})
     IN /\ fetchEv' = [request |-> request, route |-> route,
                       intercepted |-> (route # "passthrough"), net |-> net,
                       storage |-> storage,
                       response |-> answer.response, cacheRead |-> answer.cacheRead]
        /\ caches' = answer.caches
        /\ pending' = pending \cup answer.refresh
        /\ refreshed' = IF route # "passthrough" /\ refreshed.url = request.url
                        THEN NoRefresh ELSE refreshed
        /\ writes' = writes \cup UnawaitedPut(route, request, net, storage)
  /\ UNCHANGED <<activated, now, tzOffset, checks, displayed, lastCtxMsg,
                 sentDay, clearedDay, failedDay>>
  /\ UNCHANGED <<pageVars, foregroundVars>>

\* A background refresh started by handleAssetRequest comes to its end.
BackgroundRefresh(url, net, storage) ==
  /\ url \in pending
  /\ caches' = updateRuntimeCache(caches, url, net, storage)
  /\ pending' = pending \ {url}
  /\ refreshed' = IF Refreshes(net, storage)
                  THEN [url |-> url, response |-> net] ELSE refreshed
  /\ UNCHANGED writes
  /\ UNCHANGED <<activated, now, tzOffset, checks, displayed, lastCtxMsg,
                 sentDay, clearedDay, failedDay, fetchEv>>
  /\ UNCHANGED <<pageVars, foregroundVars>>

\* A put that outlived its handler completes, or is rejected.
SettleWrite(write, stored) ==
  /\ write \in writes
  /\ writes' = writes \ {write}
  /\ caches' = IF stored
               THEN CachePut(CachesOpen(caches, RUNTIME_CACHE), RUNTIME_CACHE,
                             write.url, write.response)
               ELSE caches
  /\ UNCHANGED <<activated, now, tzOffset, checks, displayed, lastCtxMsg,
                 sentDay, clearedDay, failedDay, fetchEv, pending, refreshed>>
  /\ UNCHANGED <<pageVars, foregroundVars>>

\* -------------------------------------------------- NotificationManager
\* registration.active.postMessage(...): what a call of the manager leaves
\* is the manager and the messages it posted, in order.
ForceCheck == Message("TIMETABLE_FORCE_CHECK", "undefined", NullContext)
PrefChanged(enabled) ==
  Message("TIMETABLE_PREF_CHANGED", IF enabled THEN "true" ELSE "false", NullContext)
Result(m, out) == [m |-> m, out |-> out]

\* checkTimetableWindow, requestTimetableNotification included. The window
\* is read off the local clock and the key off the UTC date.
checkTimetableWindow(m) ==
  LET date == NewDate
      dateKey == toISODate(date)
  IN IF \/ ~m.timetableNotifications
        \/ ~isWeekday(date)
        \/ getHours(date) >= 12
        \/ date < setHours(date, 6, 30)
        \/ m.stored = dateKey
     THEN Result(m, <<>>)
     ELSE Result([m EXCEPT !.stored = dateKey, !.requested = LocalDay(date)],
                 <<ForceCheck>>)

startFallbackTimer(m) ==
  IF m.fallbackTimer THEN Result(m, <<>>)
  ELSE checkTimetableWindow([m EXCEPT !.fallbackTimer = TRUE, !.intervals = @ + 1])

stopFallbackTimer(m) ==
  IF ~m.fallbackTimer THEN m
  ELSE [m EXCEPT !.fallbackTimer = FALSE, !.intervals = @ - 1]

\* enableTimetableChannel from its second test of periodicSupported on.
FinishEnable(m, registration) ==
  LET timed == IF m.periodicSupported THEN Result(stopFallbackTimer(m), <<>>)
               ELSE startFallbackTimer(m)
  IN Result([timed.m EXCEPT !.ended = [op |-> "enable", registration |-> registration]],
            timed.out \o <<PrefChanged(timed.m.timetableNotifications), ForceCheck>>)

\* disableTimetableChannel from stopFallbackTimer on.
FinishDisable(m, registration) ==
  Result([stopFallbackTimer(m) EXCEPT
            !.stored = "",
            !.ended = [op |-> "disable", registration |-> registration]],
         <<PrefChanged(FALSE)>>)

\* The manager after posting its messages, with the history of what it sent.
RECURSIVE Sent(_, _)
Sent(m, out) ==
  IF out = <<>> THEN m
  ELSE Sent(IF Head(out).type = "TIMETABLE_PREF_CHANGED"
            THEN [m EXCEPT !.lastPref = Head(out).enabled, !.forcedSince = FALSE]
            ELSE [m EXCEPT !.forcedSince = TRUE],
            Tail(out))

\* A step of run r of syncState, which leaves the run at pc.
Manage(r, pc, result) ==
  /\ Len(posted) + Len(result.out) <= MaxPosted
  /\ manager' = [Sent(result.m, result.out) EXCEPT !.runs[r] = pc]
  /\ posted' = posted \o result.out
  /\ UNCHANGED <<workerVars, routerVars, pageVars, scriptVars>>
Continue(m) == Result([m EXCEPT !.ended = NotEnded], <<>>)

\* The 'dimicheck:settings-changed' listener: the settings are replaced and
\* syncState runs to its first await (permission is granted and the chat
\* setting is off).
SettingsChanged(r, enabled) ==
  /\ activated
  /\ manager.runs[r] = "idle"
  /\ \A q \in Runs : q < r => manager.runs[q] # "idle"
  /\ LET m == [manager EXCEPT !.timetableNotifications = enabled]
     IN IF enabled THEN Manage(r, "ensurePermission", Continue(m))
        ELSE IF m.periodicSync THEN Manage(r, "disable.getTags", Continue(m))
        ELSE Manage(r, "idle", FinishDisable(m, "unsupported"))

\* await this.ensurePermission() resolves with true; enableTimetableChannel
\* runs to its first await.
AwaitEnsurePermission(r) ==
  /\ manager.runs[r] = "ensurePermission"
  /\ IF manager.periodicSupported
     THEN Manage(r, "enable.getTags", Continue(manager))
     ELSE Manage(r, "idle", FinishEnable(manager, "unsupported"))

\* await this.registration.periodicSync.getTags(), in enableTimetableChannel
AwaitEnableGetTags(r, resolved) ==
  /\ manager.runs[r] = "enable.getTags"
  /\ IF ~resolved
     THEN Manage(r, "idle",
                 FinishEnable([manager EXCEPT !.periodicSupported = FALSE], "failed"))
     ELSE IF manager.tags THEN Manage(r, "idle", FinishEnable(manager, "registered"))
     ELSE Manage(r, "register", Continue(manager))

\* await this.registration.periodicSync.register(TIMETABLE_TAG, ...)
AwaitRegister(r, resolved) ==
  /\ manager.runs[r] = "register"
  /\ IF resolved
     THEN Manage(r, "idle", FinishEnable([manager EXCEPT !.tags = TRUE], "registered"))
     ELSE Manage(r, "idle",
                 FinishEnable([manager EXCEPT !.periodicSupported = FALSE], "failed"))

\* await this.registration.periodicSync.getTags(), in disableTimetableChannel
AwaitDisableGetTags(r, resolved) ==
  /\ manager.runs[r] = "disable.getTags"
  /\ IF ~resolved THEN Manage(r, "idle", FinishDisable(manager, "failed"))
     ELSE IF manager.tags THEN Manage(r, "unregister", Continue(manager))
     ELSE Manage(r, "idle", FinishDisable(manager, "none"))

\* await this.registration.periodicSync.unregister(TIMETABLE_TAG)
AwaitUnregister(r, resolved) ==
  /\ manager.runs[r] = "unregister"
  /\ IF resolved
     THEN Manage(r, "idle", FinishDisable([manager EXCEPT !.tags = FALSE], "unregistered"))
     ELSE Manage(r, "idle", FinishDisable(manager, "failed"))

\* A tick of the interval startFallbackTimer created.
FallbackTick ==
  /\ manager.intervals > 0
  /\ LET result == checkTimetableWindow(manager)
     IN /\ Len(posted) + Len(result.out) <= MaxPosted
        /\ manager' = [Sent(result.m, result.out) EXCEPT !.ended = NotEnded]
        /\ posted' = posted \o result.out
        /\ UNCHANGED <<workerVars, routerVars, pageVars, scriptVars>>

\* The browser fires periodicsync for a tag that is registered.
FirePeriodicSync(limit) ==
  /\ manager.tags
  /\ OnPeriodicSync(TIMETABLE_TAG, limit)

\* ------------------------------------------------------------ js/pwa.js
\* dispatchUpdateEvent(worker)
dispatchUpdateEvent(p) == [p EXCEPT !.updates = @ + 1]

\* window 'load': registerServiceWorker calls register('/service-worker.js').
Load ==
  /\ pwa.registration = "none"
  /\ pwa' = [pwa EXCEPT !.registration = "registering"]
  /\ UNCHANGED <<workerVars, routerVars, pageVars, manager, posted, connection>>

\* onRegistration(registration)
onRegistration(p, waiting) ==
  LET q == [p EXCEPT !.registration = "registered", !.waiting = waiting,
                     !.listening = TRUE]
  IN IF waiting THEN dispatchUpdateEvent(q) ELSE q

\* register() resolves, with or without a waiting worker, or rejects.
RegisterSettles(resolved, waiting) ==
  /\ pwa.registration = "registering"
  /\ ~resolved => ~waiting
  /\ pwa' = IF resolved THEN onRegistration(pwa, waiting)
            ELSE [pwa EXCEPT !.registration = "failed"]
  /\ UNCHANGED <<workerVars, routerVars, pageVars, manager, posted, connection>>

\* 'updatefound' on the registration: worker w is found; installing tells
\* whether registration.installing still names it when the listener runs.
UpdateFound(w, installing) ==
  /\ pwa.workers[w] = "none"
  /\ \A v \in Workers : v < w => pwa.workers[v] # "none"
  /\ pwa' = [pwa EXCEPT !.workers[w] = "installing",
                        !.listened[w] = pwa.listening /\ installing]
  /\ UNCHANGED <<workerVars, routerVars, pageVars, manager, posted, connection>>

\* Fault variant: the update is announced whether or not a worker controls
\* the page.
onStateChangeAnyController(p, w, state) ==
  LET q == [p EXCEPT !.workers[w] = state]
  IN IF p.listened[w] /\ state = "installed" THEN dispatchUpdateEvent(q) ELSE q

\* The 'statechange' listener of worker w, which has reached state.
onStateChange(p, w, state) ==
  LET q == [p EXCEPT !.workers[w] = state]
  IN IF p.listened[w] /\ state = "installed" /\ p.controller
     THEN dispatchUpdateEvent(q) ELSE q

\* The states a worker passes through.
WorkerStates == {"installed", "activating", "activated", "redundant"}
Follows(from, to) ==
  \/ from = "installing" /\ to \in {"installed", "redundant"}
  \/ from = "installed" /\ to \in {"activating", "redundant"}
  \/ from = "activating" /\ to \in {"activated", "redundant"}
  \/ from = "activated" /\ to = "redundant"

StateChange(w, state) ==
  /\ Follows(pwa.workers[w], state)
  /\ pwa' = onStateChange(pwa, w, state)
  /\ UNCHANGED <<workerVars, routerVars, pageVars, manager, posted, connection>>

\* The 'controllerchange' listener.
ControllerChange ==
  /\ pwa.changes < MaxChanges
  /\ LET p == [pwa EXCEPT !.controller = TRUE, !.changes = @ + 1,
                          !.changeEvents = @ + 1]
     IN pwa' = IF p.refreshing THEN p
               ELSE [p EXCEPT !.refreshing = TRUE, !.reloads = @ + 1]
  /\ UNCHANGED <<workerVars, routerVars, pageVars, manager, posted, connection>>

\* ----------------------------------------------------- connectionMonitor
showBanner(c, variant, autoHide) ==
  IF ~c.hasBanner THEN c
  ELSE [c EXCEPT !.banner = variant, !.visible = TRUE, !.hidden = FALSE,
                 !.hideTimer = autoHide]

hideBanner(c) ==
  IF ~c.hasBanner THEN c
  ELSE [c EXCEPT !.visible = FALSE, !.hideTimer = FALSE, !.fades = @ + 1]

\* runHealthCheck up to its fetch, then the interval.
startHealthMonitoring(c) ==
  IF c.healthTimer THEN c
  ELSE [c EXCEPT !.checks = @ + 1, !.healthTimer = TRUE, !.intervals = @ + 1]

stopHealthMonitoring(c) ==
  IF ~c.healthTimer THEN c
  ELSE [c EXCEPT !.healthTimer = FALSE, !.intervals = @ - 1]

\* Fault variant: a resync is started whether or not one is in flight.
triggerResyncUnguarded(c) ==
  IF ~c.canResync THEN c
  ELSE [c EXCEPT !.resyncInFlight = TRUE, !.resyncs = @ + 1]

triggerResync(c) ==
  IF c.resyncInFlight \/ ~c.canResync THEN c
  ELSE [c EXCEPT !.resyncInFlight = TRUE, !.resyncs = @ + 1]

handleRecovery(c) ==
  IF c.state # "offline" THEN c
  ELSE triggerResync(stopHealthMonitoring(
         showBanner([c EXCEPT !.state = "online"], "online", TRUE)))

markFailure(c) ==
  IF c.state = "offline" THEN c
  ELSE startHealthMonitoring(showBanner([c EXCEPT !.state = "offline"], "offline", FALSE))

markSuccess(c) == IF c.state = "offline" THEN handleRecovery(c) ELSE c

Monitor(c) ==
  /\ connection' = c
  /\ UNCHANGED <<workerVars, routerVars, pageVars, manager, posted, pwa>>

\* connectionMonitor.markFailure(), called when a request of the page failed
MarkFailure ==
  /\ connection.state = "offline" \/ connection.checks < MaxHealthChecks
  /\ Monitor(markFailure(connection))

\* connectionMonitor.markSuccess()
MarkSuccess ==
  /\ connection.state \in {"online", "offline"}
  /\ Monitor(markSuccess(connection))

\* The health interval fires: runHealthCheck up to its fetch.
HealthTick ==
  /\ connection.intervals > 0
  /\ connection.checks < MaxHealthChecks
  /\ Monitor([connection EXCEPT !.checks = @ + 1])

\* The fetch of a health check settles: res.ok, or anything else.
HealthResult(okay) ==
  /\ connection.checks > 0
  /\ LET c == [connection EXCEPT !.checks = @ - 1]
     IN Monitor(IF okay THEN handleRecovery(c) ELSE c)

\* forceResyncState() settles: the finally callback of triggerResync.
ResyncSettles ==
  /\ connection.resyncs > 0
  /\ Monitor([connection EXCEPT !.resyncs = @ - 1, !.resyncInFlight = FALSE])

\* The auto-hide timeout of showBanner fires.
HideTimerFires ==
  /\ connection.hideTimer
  /\ connection.fades < MaxFades
  /\ Monitor(hideBanner(connection))

\* The 250 ms timeout of hideBanner fires.
FadeEnds ==
  /\ connection.fades > 0
  /\ Monitor([connection EXCEPT !.fades = @ - 1,
                                !.hidden = @ \/ ~connection.visible])

\* --------------------------------------------------------- specification
\* What a specification lets the environment do: how many checks may be in
\* flight at once, and which contexts the pages send.
Limit(n, contexts) == [checks |-> n, contexts |-> contexts]
Sequential == Limit(1, {Context(JsNumber(2), JsNumber(3)), NullContext})
AnyContext == Limit(1, ContextArgs)

Steps ==
  \/ \E c \in Slots : AwaitLastTimetableDate(c)
  \/ \E c \in Slots : AwaitClassContext(c)
  \/ \E c \in Slots, outcome \in FetchOutcomes : AwaitTodayTimetable(c, outcome)
  \/ \E c \in Slots, shown \in BOOLEAN : AwaitShowNotification(c, shown)
  \/ \E c \in Slots : AwaitSetLastTimetableDate(c)
  \/ \E c \in Slots : Settle(c)

\* The worker handling one timetable check at a time, with messages and the
\* clock in between its steps and calls.
Next ==
  \/ Activate
  \/ Tick
  \/ \E data \in Messages : OnMessage(data, Sequential)
  \/ \E tag \in {TIMETABLE_TAG, "other-tag"} : OnPeriodicSync(tag, Sequential)
  \/ Steps

Spec == Init /\ [][Next]_vars

\* The same worker with every kind of CLASS_CONTEXT message, at one instant
\* of the clock's range.
InitAnyTime ==
  /\ \E kind \in {"fresh", "upgrade", "restart"}, last \in PreviousDates,
        msg \in ContextArgs \cup {NeverSent} :
       /\ kind = "fresh" => (last = "" /\ msg = NeverSent)
       /\ caches = InitialCaches(kind, last, msg)
       /\ activated = (kind = "restart")
       /\ lastCtxMsg = msg
  /\ now \in 0..MaxNow
  /\ tzOffset \in TimezoneOffsets
  /\ checks = [c \in Slots |-> IdleCheck]
  /\ displayed = NoNotification
  /\ sentDay = NoDay
  /\ clearedDay = NoDay
  /\ failedDay = NoDay
  /\ fetchEv = NoFetch
  /\ pending = {}
  /\ AtRest

NextContext ==
  \/ Activate
  \/ \E data \in Messages : OnMessage(data, AnyContext)
  \/ \E tag \in {TIMETABLE_TAG, "other-tag"} : OnPeriodicSync(tag, AnyContext)
  \/ Steps

SpecContext == InitAnyTime /\ [][NextContext]_vars

\* The installation of the worker: on a clean origin, over the stores of the
\* previous version, or over its own stores of an earlier installation.
InitInstall ==
  /\ caches \in
       { <<>>,
         <<Store(OldStaticCache, PrecachedEntries), Store(OldRuntimeCache, NoEntries)>>,
         <<Store(STATIC_CACHE, PrecachedEntries), Store(RUNTIME_CACHE, NoEntries)>> }
  /\ activated = FALSE
  /\ now = 0
  /\ tzOffset = 0
  /\ checks = [c \in Slots |-> IdleCheck]
  /\ displayed = NoNotification
  /\ lastCtxMsg = NeverSent
  /\ sentDay = NoDay
  /\ clearedDay = NoDay
  /\ failedDay = NoDay
  /\ fetchEv = NoFetch
  /\ pending = {}
  /\ refreshed = NoRefresh
  /\ writes = {}
  /\ manager = NoManager
  /\ posted = <<>>
  /\ pwa = NotLoaded
  /\ connection = Connected
  /\ install = Installing
  /\ clientWindows = <<>>
  /\ clickEv = NoClick
  /\ timetableEv = NoTimetable

NextInstall ==
  \/ \E fetched \in [1..Len(PRECACHE_URLS) -> InstallOutcomes] : Install(fetched)
  \/ Activate

SpecInstall == InitInstall /\ [][NextInstall]_vars

\* The ordering and labelling of timetable rows, for every short list of
\* rows: with or without a period (0 for none), with or without a subject.
SomeRows == {Row(period, subject) : period \in 0..2, subject \in {"", "a", "b"}}
RowLists == UNION {[1..n -> SomeRows] : n \in 0..MaxRows}
InitTimetable ==
  /\ \E engine \in Engines, rows \in RowLists :
       timetableEv = [engine |-> engine, rows |-> rows, lines |-> <<>>, read |-> FALSE]
  /\ caches = <<Store(STATIC_CACHE, PrecachedEntries)>>
  /\ activated = TRUE
  /\ now = 0
  /\ tzOffset = 0
  /\ checks = [c \in Slots |-> IdleCheck]
  /\ displayed = NoNotification
  /\ lastCtxMsg = NeverSent
  /\ sentDay = NoDay
  /\ clearedDay = NoDay
  /\ failedDay = NoDay
  /\ fetchEv = NoFetch
  /\ pending = {}
  /\ refreshed = NoRefresh
  /\ writes = {}
  /\ manager = NoManager
  /\ posted = <<>>
  /\ pwa = NotLoaded
  /\ connection = Connected
  /\ install = Installed
  /\ clientWindows = <<>>
  /\ clickEv = NoClick

NextTimetable == ReadTimetable

SpecTimetable == InitTimetable /\ [][NextTimetable]_vars

\* Clicks on notifications, with any windows of the app open.
WindowUrls ==
  { Url(SelfOrigin, <<"">>), Url(SelfOrigin, <<"routine.html">>),
    WithSearch(Url(SelfOrigin, <<"routine.html">>), "?day=2"),
    Url(SelfOrigin, <<"chat.html">>) }
ClickedNotifications ==
  {TimetableNotification(<<>>), ChatNotification, BareNotification}
InitClick ==
  /\ \E n \in 0..2 : clientWindows \in [1..n -> WindowUrls]
  /\ displayed \in {NoNotification, TimetableNotification(<<>>)}
  /\ caches = <<Store(STATIC_CACHE, PrecachedEntries)>>
  /\ activated = TRUE
  /\ now = 0
  /\ tzOffset = 0
  /\ checks = [c \in Slots |-> IdleCheck]
  /\ lastCtxMsg = NeverSent
  /\ sentDay = NoDay
  /\ clearedDay = NoDay
  /\ failedDay = NoDay
  /\ fetchEv = NoFetch
  /\ pending = {}
  /\ refreshed = NoRefresh
  /\ writes = {}
  /\ manager = NoManager
  /\ posted = <<>>
  /\ pwa = NotLoaded
  /\ connection = Connected
  /\ install = Installed
  /\ clickEv = NoClick
  /\ timetableEv = NoTimetable

NextClick ==
  \/ \E notification \in ClickedNotifications : OnNotificationClick(notification)
  \/ \E i \in 1..MaxWindows : CloseWindow(i)

SpecClick == InitClick /\ [][NextClick]_vars

\* The fetch router. CacheStorage belongs to the origin, not to this version
\* of the worker: a store may hold a response for a URL the current worker
\* would not have stored, which is what the API fallback reads.
InitialRuntime(withApi, withScript) ==
  [u \in (IF withApi THEN {ApiUrl} ELSE {}) \cup (IF withScript THEN {ScriptUrl} ELSE {})
     |-> PageResponse(200, 1)]
InitRouter ==
  /\ \E kind \in {"fresh", "upgrade", "restart"}, withApi, withScript \in BOOLEAN :
       /\ kind = "fresh" => (~withApi /\ ~withScript)
       /\ caches =
            CASE kind = "fresh" -> <<Store(STATIC_CACHE, PrecachedEntries)>>
              [] kind = "upgrade" ->
                   <<Store(OldStaticCache, PrecachedEntries),
                     Store(OldRuntimeCache, InitialRuntime(withApi, withScript)),
                     Store(STATIC_CACHE, PrecachedEntries)>>
              [] OTHER ->
                   <<Store(STATIC_CACHE, PrecachedEntries),
                     Store(RUNTIME_CACHE, InitialRuntime(withApi, withScript))>>
       /\ activated = (kind = "restart")
  /\ now = 0
  /\ tzOffset = 0
  /\ checks = [c \in Slots |-> IdleCheck]
  /\ displayed = NoNotification
  /\ lastCtxMsg = NeverSent
  /\ sentDay = NoDay
  /\ clearedDay = NoDay
  /\ failedDay = NoDay
  /\ fetchEv = NoFetch
  /\ pending = {}
  /\ AtRest

\* The routing of every kind of request, the runtime store in order.
NextRouter ==
  \/ Activate
  \/ \E request \in Requests, net \in NetworkOutcomes : OnFetch(request, net, "ok")
  \/ \E url \in RequestUrls, net \in NetworkOutcomes : BackgroundRefresh(url, net, "ok")

SpecRouter == InitRouter /\ [][NextRouter]_vars

\* The same worker with stores that only this worker has written to: the
\* precache, and a runtime store with at most a script in it.
InitWorkerOnly ==
  /\ InitRouter
  /\ \A i \in 1..Len(caches) : ApiUrl \notin DOMAIN caches[i].entries

SpecWorkerOnly == InitWorkerOnly /\ [][NextRouter]_vars

\* Page loads, with a runtime store that may fail.
NavigationRequests ==
  { Request("GET", RootUrl, "navigate"),
    Request("GET", ChatUrl, "navigate"),
    Request("GET", IndexUrl, "navigate") }
NextNavigation ==
  \/ Activate
  \/ \E request \in NavigationRequests, net \in NetworkOutcomes,
        storage \in StorageOutcomes : OnFetch(request, net, storage)

SpecNavigation == InitRouter /\ [][NextNavigation]_vars

\* The three writers of the runtime store: assets and their background
\* refreshes, and one page.
AssetRequests ==
  { Request("GET", StyleUrl, "no-cors"),
    Request("GET", WithSearch(StyleUrl, "?v=2"), "no-cors"),
    Request("GET", ScriptUrl, "no-cors") }
StoreRequests == AssetRequests \cup {Request("GET", ChatUrl, "navigate")}
NextStores ==
  \/ Activate
  \/ \E request \in StoreRequests, net \in NetworkOutcomes,
        storage \in StorageOutcomes : OnFetch(request, net, storage)
  \/ \E request \in AssetRequests, net \in NetworkOutcomes,
        storage \in StorageOutcomes : BackgroundRefresh(request.url, net, storage)

SpecStores == InitRouter /\ [][NextStores]_vars

\* The NotificationManager after init, on a platform with or without
\* periodic background sync, and the worker receiving what it posts. The
\* clock stands at a time inside or outside the notification window.
ManagerTimes == {0, 38}
InitReady ==
  /\ caches = InitialCaches("restart", "", Context(JsNumber(2), JsNumber(3)))
  /\ activated = TRUE
  /\ lastCtxMsg = Context(JsNumber(2), JsNumber(3))
  /\ tzOffset = 0
  /\ checks = [c \in Slots |-> IdleCheck]
  /\ displayed = NoNotification
  /\ sentDay = NoDay
  /\ clearedDay = NoDay
  /\ failedDay = NoDay
  /\ fetchEv = NoFetch
  /\ pending = {}
  /\ refreshed = NoRefresh
  /\ writes = {}
  /\ posted = <<>>
  /\ install = Installed
  /\ clientWindows = <<>>
  /\ clickEv = NoClick
  /\ timetableEv = NoTimetable
InitManager ==
  /\ InitReady
  /\ pwa = NotLoaded
  /\ connection = Connected
  /\ now \in ManagerTimes
  /\ \E supported \in BOOLEAN, registered \in BOOLEAN :
       /\ registered => supported
       /\ manager = [NoManager EXCEPT !.periodicSync = supported,
                                      !.periodicSupported = supported,
                                      !.tags = registered]

NextManager ==
  \/ \E r \in Runs, enabled \in BOOLEAN : SettingsChanged(r, enabled)
  \/ \E r \in Runs : AwaitEnsurePermission(r)
  \/ \E r \in Runs, resolved \in BOOLEAN : AwaitEnableGetTags(r, resolved)
  \/ \E r \in Runs, resolved \in BOOLEAN : AwaitRegister(r, resolved)
  \/ \E r \in Runs, resolved \in BOOLEAN : AwaitDisableGetTags(r, resolved)
  \/ \E r \in Runs, resolved \in BOOLEAN : AwaitUnregister(r, resolved)
  \/ FallbackTick
  \/ ReceiveMessage(Sequential)
  \/ FirePeriodicSync(Sequential)
  \/ Steps

SpecManager == InitManager /\ [][NextManager]_vars

\* The worker with events delivered while a check is in flight: up to
\* MaxChecks calls of triggerTimetableNotification overlap.
Overlapping == Limit(MaxChecks, {Context(JsNumber(2), JsNumber(3))})
InitOverlap == InitManager /\ manager = NoManager
NextOverlap ==
  \/ OnMessage(ForceCheck, Overlapping)
  \/ OnPeriodicSync(TIMETABLE_TAG, Overlapping)
  \/ Steps

SpecOverlap == InitOverlap /\ [][NextOverlap]_vars

\* One lifetime of a page: its registration script and its connection
\* monitor, with the events the browser and the page's requests give them.
\* The page may be controlled by a worker from the start, and may lack the
\* banner element or the resync function.
InitPage ==
  /\ InitReady
  /\ now = 0
  /\ manager = NoManager
  /\ \E controller \in BOOLEAN :
       pwa = [NotLoaded EXCEPT !.controller = controller]
  /\ \E hasBanner \in BOOLEAN, canResync \in BOOLEAN :
       connection = [Connected EXCEPT !.hasBanner = hasBanner,
                                      !.canResync = canResync]
NextPage ==
  \/ Load
  \/ \E resolved \in BOOLEAN, waiting \in BOOLEAN : RegisterSettles(resolved, waiting)
  \/ \E w \in Workers, installing \in BOOLEAN : UpdateFound(w, installing)
  \/ \E w \in Workers, state \in WorkerStates : StateChange(w, state)
  \/ ControllerChange
  \/ MarkFailure
  \/ MarkSuccess
  \/ HealthTick
  \/ \E okay \in BOOLEAN : HealthResult(okay)
  \/ ResyncSettles
  \/ HideTimerFires
  \/ FadeEnds

SpecPage == InitPage /\ [][NextPage]_vars

\* The page with timetable notifications on and no periodic sync, from the
\* Thursday evening on: enableTimetableChannel has started the fallback
\* timer, whose ticks ask the worker for a check as the clock moves on.
TimerStarted ==
  [NoManager EXCEPT !.timetableNotifications = TRUE, !.fallbackTimer = TRUE,
                    !.intervals = 1, !.lastPref = "true", !.forcedSince = TRUE,
                    !.ended = [op |-> "enable", registration |-> "unsupported"]]
InitFallback ==
  /\ InitReady
  /\ pwa = NotLoaded
  /\ connection = Connected
  /\ now = 24
  /\ manager = TimerStarted
NextFallback ==
  \/ Tick
  \/ FallbackTick
  \/ ReceiveMessage(Sequential)
  \/ Steps

SpecFallback == InitFallback /\ [][NextFallback]_vars

\* The work the fetch handlers start, and when it ends: a page load whose
\* put may outlive the handler, an asset that is cached (refreshed in the
\* background) and one that is not (stored before the answer).
LifetimeRequests ==
  { Request("GET", ChatUrl, "navigate"),
    Request("GET", StyleUrl, "no-cors"),
    Request("GET", ScriptUrl, "no-cors") }
LifetimeOutcomes == {"ok", "putPending"}
NextLifetime ==
  \/ Activate
  \/ \E request \in LifetimeRequests, net \in NetworkOutcomes,
        storage \in LifetimeOutcomes : OnFetch(request, net, storage)
  \/ \E request \in LifetimeRequests, net \in NetworkOutcomes :
       BackgroundRefresh(request.url, net, "ok")
  \/ \E request \in LifetimeRequests, stored \in BOOLEAN :
       SettleWrite([url |-> request.url, response |-> PageResponse(200, 2)], stored)

SpecLifetime == InitRouter /\ [][NextLifetime]_vars

\* ================================================================ claims
MetaStore(cs) ==
  IF HasCache(cs, TIMETABLE_META_CACHE)
  THEN <<cs[CacheIndex(cs, TIMETABLE_META_CACHE)].entries>>
  ELSE <<>>
StoredContext(cs) == CacheMatch(cs, TIMETABLE_META_CACHE, CLASS_CONTEXT_URL)
StoredDate(cs) == CacheMatch(cs, TIMETABLE_META_CACHE, TIMETABLE_META_URL)

\* The local wall clock, read directly in minutes.
LocalMinuteOfDay == (NewDate + tzOffset) % (24 * 60)
LocalWeekday == (4 + (NewDate + tzOffset) \div (24 * 60)) % 7
InsideWindow ==
  /\ LocalWeekday \in 1..5
  /\ LocalMinuteOfDay >= 6 * 60 + 30
  /\ LocalMinuteOfDay < 12 * 60
\* The local calendar date, as an ISO date.
LocalISODate ==
  "2026-01-" \o padStart2(1 + (NewDate + tzOffset) \div (24 * 60))

\* C1: the activate handler leaves the metadata store and its entries
\* (last-notification-date, class-context) exactly as they were.
C1_ActivateKeepsMetadata ==
  [][Activate => MetaStore(caches') = MetaStore(caches)]_vars

\* C2: once a notification has been shown and its dedup date recorded, a
\* later sequential trigger on the same local calendar day, with no disable
\* in between, shows no further notification.
C2_OncePerLocalDay ==
  \A c \in Slots :
    (checks[c].pc = "setLast" /\ checks[c].shown) => ~checks[c].sawSent

\* C2, second part: the dedup date a trigger records is the date of the
\* local day.
C2_RecordsLocalDate ==
  \A c \in Slots : checks[c].pc = "setLast" => checks[c].dateKey = LocalISODate

HasContext(c) == checks[c].pc \in {"fetch", "show", "setLast"}
PositiveInteger(v) == v.t = "number" /\ v.n >= 1
NonzeroFinite(v) == v.t = "number" /\ v.n # 0
\* A message field that is missing, zero or not numeric.
MissingZeroOrText(v) ==
  \/ v.t \in {"undefined", "text"}
  \/ (v.t \in {"number", "numstr"} /\ v.n = 0)
\* The context of the latest CLASS_CONTEXT message is the one in use.
UsesLatestMessage ==
  /\ \A c \in Slots :
       HasContext(c) =>
         /\ checks[c].ctxMsg # NeverSent
         /\ checks[c].context = Context(ToNumber(checks[c].ctxMsg.grade),
                                        ToNumber(checks[c].ctxMsg.section))
  /\ (lastCtxMsg # NeverSent /\ (MissingZeroOrText(lastCtxMsg.grade)
                                 \/ MissingZeroOrText(lastCtxMsg.section)))
       => StoredContext(caches) = NoMatch

\* C4, as claimed: a notification is shown only with a stored class context
\* whose grade and section are both positive integers, which is the one of
\* the latest CLASS_CONTEXT message; a message whose grade or section is
\* missing, zero or non-numeric leaves no stored context.
C4_PositiveIntegerContext ==
  /\ \A c \in Slots :
       HasContext(c) => /\ PositiveInteger(checks[c].context.grade)
                        /\ PositiveInteger(checks[c].context.section)
  /\ UsesLatestMessage

\* C4, amended: the same with grade and section both nonzero finite numbers
\* (a negative number passes the test of the source).
C4_NonzeroContext ==
  /\ \A c \in Slots :
       HasContext(c) => /\ NonzeroFinite(checks[c].context.grade)
                        /\ NonzeroFinite(checks[c].context.section)
  /\ UsesLatestMessage

C4_Witness ==
  /\ lastCtxMsg = Context(JsNumericString(1), JsNumericString(1))
  /\ \E c \in Slots :
       /\ checks[c].pc = "setLast"
       /\ checks[c].shown
       /\ checks[c].context = Context(JsNumber(1), JsNumber(1))

\* C5: with the firing preconditions met, a failed timetable fetch
\* (rejection, non-OK status, malformed JSON, no table array) does not end
\* the call: the notification goes out with the generic body, and the dedup
\* date is recorded once it is displayed.
C5_FetchFailureStillNotifies ==
  /\ [](\A c \in Slots :
          /\ checks[c].result # "threw"
          /\ (checks[c].pc = "show" /\ checks[c].fetched = "failed")
               => checks[c].lines = <<>>
          /\ (checks[c].pc = "setLast" /\ checks[c].fetched = "failed")
               => (checks[c].shown /\ displayed.body = FallbackBody
                   /\ displayed.tag = TIMETABLE_TAG))
  /\ [][\A c \in Slots :
          (checks[c].pc = "fetch" /\ checks'[c].pc # "fetch")
            => checks'[c].pc = "show"]_vars
  /\ [][\A c \in Slots :
          (checks[c].pc = "setLast" /\ checks'[c].pc # "setLast")
            => /\ checks'[c].result = "shown"
               /\ StoredDate(caches') = TextResponse(checks[c].dateKey)]_vars

C5_Witness ==
  \E c \in Slots :
    /\ checks[c].pc = "setLast"
    /\ checks[c].fetched = "failed"
    /\ checks[c].shown
    /\ displayed.body = FallbackBody

\* C6: a call whose showNotification failed does not record the date, and
\* the next trigger on that local day is not stopped by the dedup test.
C6_FailedShowIsRetried ==
  \A c \in Slots :
    /\ checks[c].pc = "setLast" => checks[c].shown
    /\ (checks[c].pc = "done" /\ checks[c].afterFail) => checks[c].result # "dedup"

C6_Witness ==
  \E c \in Slots :
    checks[c].pc = "done" /\ checks[c].afterFail /\ checks[c].result = "shown"

\* C7: after a notification was shown on a day, handling
\* TIMETABLE_PREF_CHANGED with enabled false removes the stored date, and a
\* trigger later that day is not stopped by the dedup test: with the class
\* context in place it shows a new notification.
C7_DisableAllowsNewNotification ==
  /\ clearedDay # NoDay => StoredDate(caches) = NoMatch
  /\ \A c \in Slots :
       (checks[c].pc = "done" /\ checks[c].afterClear)
         => checks[c].result # "dedup"

C7_Witness ==
  \E c \in Slots :
    checks[c].pc = "setLast" /\ checks[c].shown /\ checks[c].afterClear

ApiLike(request) ==
  /\ request.method = "GET"
  /\ request.url.origin = SelfOrigin
  /\ \/ Len(request.url.path) >= 2 /\ request.url.path[1] \in {"api", "auth"}
     \/ request.url.path = <<"me">>
C9_ApiNetworkFirst ==
  [][LET request == fetchEv'.request
         net == fetchEv'.net
     IN (OnFetch(request, net, fetchEv'.storage) /\ ApiLike(request)) =>
         /\ fetchEv'.intercepted
         /\ net # Rejected => (fetchEv'.response = net /\ ~fetchEv'.cacheRead)
         /\ net = Rejected =>
              /\ fetchEv'.cacheRead
              /\ fetchEv'.response =
                   IF \E i \in 1..Len(caches) : request.url \in DOMAIN caches[i].entries
                   THEN CachesMatch(caches, request.url)
                   ELSE NetworkError]_vars
C9_Witness ==
  /\ ApiLike(fetchEv.request)
  /\ fetchEv.net # Rejected
  /\ \E i \in 1..Len(caches) : fetchEv.request.url \in DOMAIN caches[i].entries
  /\ fetchEv.response = fetchEv.net
  /\ fetchEv.response # CachesMatch(caches, fetchEv.request.url)

\* C10: a request that is not a GET, or is for another origin, is not
\* intercepted: respondWith is not called, no store is read or written, and
\* the answer is the network's.
C10_PassThrough ==
  [][LET request == fetchEv'.request
         net == fetchEv'.net
     IN (OnFetch(request, net, fetchEv'.storage) /\
          (request.method # "GET" \/ request.url.origin # SelfOrigin)) =>
         /\ ~fetchEv'.intercepted
         /\ ~fetchEv'.cacheRead
         /\ fetchEv'.response = net
         /\ caches' = caches
         /\ pending' = pending]_vars
C10_Witness ==
  /\ fetchEv.request.method = "POST"
  /\ fetchEv.request.url.origin = SelfOrigin
  /\ \E i \in 1..Len(caches) : fetchEv.request.url \in DOMAIN caches[i].entries
  /\ ~fetchEv.intercepted
  /\ fetchEv.response = fetchEv.net

\* C11: the runtime store never holds a response of status 206 nor one
\* that is not OK, whatever requests and network outcomes the navigation
\* handler, the asset handler and the background refresh have met.
RuntimeEntries(cs) ==
  IF HasCache(cs, RUNTIME_CACHE) THEN cs[CacheIndex(cs, RUNTIME_CACHE)].entries
  ELSE NoEntries
C11_RuntimeHoldsOnlyFullOk ==
  \A key \in DOMAIN RuntimeEntries(caches) :
    /\ ok(RuntimeEntries(caches)[key])
    /\ RuntimeEntries(caches)[key].status # 206
C11_Witness ==
  /\ fetchEv.route = "navigate"
  /\ fetchEv.net.status = 206
  /\ fetchEv.storage = "ok"
  /\ fetchEv.response = fetchEv.net
  /\ HasCache(caches, RUNTIME_CACHE)
  /\ fetchEv.request.url \notin DOMAIN RuntimeEntries(caches)
  /\ StyleUrl \in DOMAIN RuntimeEntries(caches)

\* C12: when the fetch of a navigation request fails, the answer is the
\* cached response for that URL if there is one, otherwise the cached shell
\* page, and the error only when neither exists; hence, once install has
\* succeeded, an offline navigation to any same-origin URL is answered with
\* a page and not with an error.
C12_OfflineNavigationGetsPage ==
  [][LET e == fetchEv'
     IN (OnFetch(e.request, e.net, e.storage) /\ e.route = "navigate"
           /\ e.net = Rejected) =>
          /\ e.response =
               IF CachesMatch(caches, e.request.url) # NoMatch
               THEN CachesMatch(caches, e.request.url)
               ELSE IF CachesMatch(caches, IndexUrl) # NoMatch
               THEN CachesMatch(caches, IndexUrl)
               ELSE NetworkError
          /\ install.state = "installed" => e.response # NetworkError]_vars

\* C13: an asset request with a cached response is answered with the
\* cached response, and a background re-fetch of it is started; once such a
\* re-fetch has stored a new OK response, the next request for the asset is
\* answered with that response, a precached asset included.
C13_AssetBecomesFresh ==
  [][LET e == fetchEv'
     IN (OnFetch(e.request, e.net, e.storage) /\ e.route = "asset"
           /\ CachesMatch(caches, e.request.url) # NoMatch) =>
          /\ \E i \in 1..Len(caches) :
               /\ e.request.url \in DOMAIN caches[i].entries
               /\ e.response = caches[i].entries[e.request.url]
          /\ e.request.url \in pending'
          /\ refreshed.url = e.request.url => e.response = refreshed.response]_vars

\* C14: an asset request with no cached response is answered with the live
\* response when the fetch succeeds, and that response is stored in the
\* runtime store when it is OK and not 206; when the fetch fails, with the
\* static store's entry for the path if the path is in the precache
\* manifest, and with the failure otherwise.
C14_AssetMiss ==
  [][LET e == fetchEv'
         url == e.request.url
     IN (OnFetch(e.request, e.net, e.storage) /\ e.route = "asset"
           /\ CachesMatch(caches, url) = NoMatch) =>
          /\ e.net # Rejected =>
               /\ e.response = e.net
               /\ (ok(e.net) /\ e.net.status # 206) =>
                    CacheMatch(caches', RUNTIME_CACHE, url) = e.net
          /\ (e.net = Rejected /\ InPrecacheSet(url.path)) =>
               e.response = CacheMatch(caches, STATIC_CACHE, Url(SelfOrigin, url.path))
          /\ (e.net = Rejected /\ ~InPrecacheSet(url.path)) =>
               e.response = NetworkError]_vars

\* C15: once activate has completed no static or runtime store of another
\* cache version exists, and activate is idempotent: run again at once, its
\* cleanup deletes nothing and leaves the stores and their contents as
\* they are.
OtherVersion(name) == name \in {OldStaticCache, OldRuntimeCache}
C15_ActivateCleansOnce ==
  /\ [](activated => \A i \in 1..Len(caches) : ~OtherVersion(caches[i].name))
  /\ [][(~activated /\ activated') =>
          /\ ActivateCleanup(caches') = caches'
          /\ \A i \in 1..Len(caches) :
               (caches[i].name \in {STATIC_CACHE, RUNTIME_CACHE}) =>
                 \E j \in 1..Len(caches') : caches'[j] = caches[i]]_vars
C15_Witness ==
  /\ activated
  /\ lastCtxMsg = Context(JsNumber(2), JsNumber(3))
  /\ ~HasCache(caches, TIMETABLE_META_CACHE)
  /\ HasCache(caches, STATIC_CACHE)
  /\ PrecachedEntries = caches[CacheIndex(caches, STATIC_CACHE)].entries

\* C16: install precaching is all or nothing: when the fetch of any URL of
\* the manifest fails, the install fails and the static store holds no
\* entry of this install; when every fetch succeeds, it holds the fetched
\* response for every URL of the manifest.
C16_InstallAllOrNothing ==
  install.state # "installing" =>
    LET manifest == 1..Len(PRECACHE_URLS)
        fetched == install.fetched
    IN /\ (\E i \in manifest : ~Cacheable(fetched[i])) =>
            /\ install.state = "failed"
            /\ \A i \in manifest :
                 CacheMatch(caches, STATIC_CACHE, PrecacheUrl(i)) \notin InstallOutcomes
       /\ (\A i \in manifest : Cacheable(fetched[i])) =>
            /\ install.state = "installed"
            /\ \A i \in manifest :
                 CacheMatch(caches, STATIC_CACHE, PrecacheUrl(i)) = fetched[i]
C16_Witness ==
  /\ install.state = "failed"
  /\ install.fetched[1] = PageResponse(200, 2)
  /\ install.fetched[2] = Rejected
  /\ HasCache(caches, STATIC_CACHE)
  /\ CacheMatch(caches, STATIC_CACHE, PrecacheUrl(1)) = NoMatch

\* C17: a click on a notification closes it and does exactly one of two
\* things: when some open window has the path of the notification's target
\* URL ('/' by default), one such window is focused and none is opened;
\* when none has, one window is opened at the target path.
C17_FocusOrOpen ==
  [][(\E notification \in ClickedNotifications :
        /\ OnNotificationClick(notification)
        /\ clickEv'.target = targetUrl(notification)) =>
       LET e == clickEv'
           matching == {i \in 1..Len(clientWindows) : clientWindows[i].path = e.target}
       IN /\ e.closed
          /\ matching # {} =>
               /\ Len(e.focused) = 1
               /\ e.focused[1] \in matching
               /\ e.opened = <<>>
               /\ clientWindows' = clientWindows
          /\ matching = {} =>
               /\ e.focused = <<>>
               /\ Len(e.opened) = 1
               /\ e.opened[1].path = e.target
               /\ clientWindows' = Append(clientWindows, e.opened[1])]_vars
C17_Witness ==
  /\ clickEv.closed
  /\ clickEv.target = <<"routine.html">>
  /\ clickEv.focused = <<1>>
  /\ clickEv.opened = <<>>
  /\ displayed = NoNotification
  /\ Len(clientWindows) = 2
  /\ clientWindows[1].search = "?day=2"
  /\ clientWindows[2].path = <<"routine.html">>

\* C18: the lines are made of exactly the rows that have a subject, in
\* ascending order of period, the rows without a period after all others
\* and in their original order; a row with period p is labelled with p,
\* a row without one with its 1-based position.
RECURSIVE ByPeriod(_, _)
ByPeriod(items, p) ==
  IF p > 2 THEN <<>>
  ELSE SelectSeq(items, LAMBDA item : item.period = p) \o ByPeriod(items, p + 1)
ExpectedLines(rows) ==
  LET kept == SelectSeq(rows, LAMBDA item : item.subject # "")
      ordered == ByPeriod(kept, 1) \o SelectSeq(kept, LAMBDA item : item.period = 0)
  IN [i \in 1..Len(ordered) |->
        (IF ordered[i].period # 0 THEN ToString(ordered[i].period) ELSE ToString(i))
        \o PeriodSuffix \o ": " \o ordered[i].subject]
C18_LinesInPeriodOrder ==
  timetableEv.read => timetableEv.lines = ExpectedLines(timetableEv.rows)

\* C19: whenever the fetch of a navigation request resolves, the caller
\* gets that live response and never a cached one, whatever the stores
\* hold for the URL; and when the response is OK and not 206, the runtime
\* store then holds it under the request (unless the write itself is
\* rejected).
C19_NavigationNetworkFirst ==
  [][LET e == fetchEv'
     IN (OnFetch(e.request, e.net, e.storage) /\ e.route = "navigate"
           /\ e.net # Rejected) =>
          /\ e.response = e.net
          /\ (ok(e.net) /\ e.net.status # 206 /\ e.storage # "putFails") =>
               CacheMatch(caches', RUNTIME_CACHE, e.request.url) = e.net]_vars

\* C20: a response with a non-OK status is handled as a network failure:
\* navigation and asset requests are then answered from the cache or the
\* fallback page when there is one, and the non-OK response reaches the
\* caller only when there is none.
FailureFallback(cs, request, route) ==
  IF CachesMatch(cs, request.url) # NoMatch THEN CachesMatch(cs, request.url)
  ELSE IF route = "navigate" THEN CachesMatch(cs, IndexUrl)
  ELSE IF InPrecacheSet(request.url.path)
  THEN CachesMatch(cs, Url(SelfOrigin, request.url.path))
  ELSE NoMatch
C20_NonOkIsFailure ==
  [][LET e == fetchEv'
     IN (OnFetch(e.request, e.net, e.storage) /\ e.route \in {"navigate", "asset"}
           /\ e.net # Rejected /\ ~ok(e.net)) =>
          e.response = IF FailureFallback(caches, e.request, e.route) # NoMatch
                       THEN FailureFallback(caches, e.request, e.route)
                       ELSE e.net]_vars

\* C21: a failure of the runtime store never changes the primary response:
\* whenever the fetch of a navigation request, or of an asset request that
\* is not cached, has succeeded, the caller gets that live response, also
\* when the store cannot be opened or the write is rejected.
C21_StoreFailureKeepsResponse ==
  [][LET e == fetchEv'
     IN (/\ OnFetch(e.request, e.net, e.storage)
         /\ e.net # Rejected
         /\ \/ e.route = "navigate"
            \/ e.route = "asset" /\ CachesMatch(caches, e.request.url) = NoMatch) =>
          e.response = e.net]_vars

\* C22: the work a handler starts is covered by its event: no put into the
\* runtime store is still running once the promise given to respondWith or
\* waitUntil has settled. (A background refresh runs under waitUntil and is
\* held in pending until it ends; a put left in writes belongs to a handler
\* that has returned.)
C22_NoWorkOutlivesEvent == writes = {}

\* C23: when enableTimetableChannel has completed, exactly one of the two
\* wake mechanisms is active: the fallback timer runs if periodic sync is
\* unsupported or its registration failed and is stopped if the registration
\* succeeded, so the timer and the registered tag never coexist; when
\* disableTimetableChannel has completed the timer is not running; and at
\* no time is more than one interval running.
C23_OneWakeMechanism ==
  /\ manager.intervals <= 1
  /\ manager.ended.op = "enable" =>
       /\ manager.fallbackTimer <=> manager.ended.registration \in {"unsupported", "failed"}
       /\ ~(manager.fallbackTimer /\ manager.tags)
       /\ manager.fallbackTimer \/ manager.tags
  /\ manager.ended.op = "disable" => ~manager.fallbackTimer

\* C24: checks for the same day that overlap in the worker display the
\* notification at most once: of the calls in flight at one instant of the
\* clock, with no disable in between, at most one has had showNotification
\* resolve.
HasShown(c) == checks[c].shown \/ checks[c].result = "shown"
C24_OverlapShowsOnce == Cardinality({c \in Slots : HasShown(c)}) <= 1

\* C25: while the timetable preference is off and the worker has handled
\* the TIMETABLE_PREF_CHANGED message that said so, no call of
\* showNotification for the timetable resolves.
HandledDisable ==
  /\ ~manager.timetableNotifications
  /\ manager.lastPref = "false"
  /\ \A i \in 1..Len(posted) : posted[i].type # "TIMETABLE_PREF_CHANGED"
Shows(c) == checks[c].pc = "show" /\ checks'[c].shown
C25_NothingShownWhileDisabled ==
  [][HandledDisable => ~\E c \in Slots : Shows(c)]_vars

\* C26: once every run of syncState has finished and the setting is off,
\* the fallback timer is stopped, the periodic sync tag is not registered,
\* and the last TIMETABLE_PREF_CHANGED posted says disabled with no
\* TIMETABLE_FORCE_CHECK posted after it.
AllRunsFinished ==
  /\ \A r \in Runs : manager.runs[r] = "idle"
  /\ manager.lastPref # "none"
C26_RunsConverge ==
  (AllRunsFinished /\ ~manager.timetableNotifications) =>
    /\ ~manager.fallbackTimer
    /\ ~manager.tags
    /\ manager.lastPref = "false"
    /\ ~manager.forcedSince

\* C27: with the fallback timer running, a check that a tick asked for and
\* that ended without a notification for the day is asked for again: inside
\* the window, with the request handled and nothing recorded as sent, the
\* next tick posts TIMETABLE_FORCE_CHECK.
Undelivered ==
  /\ manager.requested = Today
  /\ sentDay # Today
  /\ posted = <<>>
  /\ NumInFlight = 0
C27_TickRetries ==
  (/\ manager.intervals > 0
   /\ manager.timetableNotifications
   /\ WindowGuard(NewDate) = "pass"
   /\ Undelivered) =>
    checkTimetableWindow(manager).out = <<ForceCheck>>

\* C28: no store ever holds an entry for a same-origin URL whose path starts
\* with /api/ or /auth/ or is /me, whatever the mode of the requests made;
\* so when only the worker has written to the stores, a request for such a
\* URL is answered from no store: with the error when the fetch rejects and
\* with the network's response, whatever its status, when it resolves.
ApiEntries ==
  {key \in UNION {DOMAIN caches[i].entries : i \in 1..Len(caches)} :
     ApiLike(Request("GET", key, "cors"))}
C28_ApiNeverStored ==
  /\ [](ApiEntries = {})
  /\ [][LET e == fetchEv'
        IN (OnFetch(e.request, e.net, e.storage) /\ ApiLike(e.request)) =>
             e.response = IF e.net = Rejected THEN NetworkError ELSE e.net]_vars
C28_Witness ==
  /\ ApiLike(fetchEv.request)
  /\ fetchEv.request.mode = "navigate"
  /\ fetchEv.net = Rejected
  /\ fetchEv.cacheRead
  /\ fetchEv.response = NetworkError
  /\ DOMAIN RuntimeEntries(caches) # {}

\* C29: window.location.reload is called at most once however many
\* controllerchange events arrive, and 'dimicheck:pwa-controllerchange' is
\* dispatched for every one of them; 'dimicheck:pwa-update' is dispatched
\* only when the registration resolves with a waiting worker or when a
\* worker reaches 'installed' in a page that a worker controls.
WaitingAtRegistration ==
  /\ pwa.registration = "registering"
  /\ pwa'.registration = "registered"
  /\ pwa'.waiting
InstalledUnderController ==
  /\ pwa.controller
  /\ \E w \in Workers : pwa.workers[w] # "installed" /\ pwa'.workers[w] = "installed"
C29_ReloadOnceUpdateOnCause ==
  /\ [](pwa.reloads <= 1 /\ pwa.changeEvents = pwa.changes)
  /\ [][pwa'.updates # pwa.updates =>
          (WaitingAtRegistration \/ InstalledUnderController)]_vars
C29_Witness ==
  /\ pwa.changes = MaxChanges
  /\ pwa.changeEvents = MaxChanges
  /\ pwa.reloads = 1
  /\ pwa.updates > 0
  /\ \E w \in Workers : pwa.workers[w] = "activated"

\* C30: the health interval runs exactly when the state is 'offline', and
\* never twice; a step from 'offline' to 'online' stops it and starts at
\* most one resync; a resync starts only when none is in flight.
TimerIffOffline ==
  /\ connection.healthTimer <=> connection.state = "offline"
  /\ connection.intervals = IF connection.state = "offline" THEN 1 ELSE 0
  /\ connection.resyncs <= 1
C30_TimerIffOfflineOneResync ==
  /\ []TimerIffOffline
  /\ [][/\ (connection.state = "offline" /\ connection'.state = "online") =>
             /\ connection'.intervals = 0
             /\ connection'.resyncs <= connection.resyncs + 1
        /\ connection'.resyncs > connection.resyncs => connection.resyncs = 0]_vars
C30_Witness ==
  /\ connection.state = "offline"
  /\ connection.healthTimer
  /\ connection.resyncs = 1
  /\ connection.checks = MaxHealthChecks

====
